---- MODULE Spec2Model ----
(***************************************************************************)
(* A state-machine model of the reactive kernel (ReactiveModule): sources, *)
(* computations, the logical clock, dirty / observeCount / dirtyInputCount *)
(* bookkeeping, the ready queue, asynchronous body tasks with cancellation,*)
(* dynamic dependencies, pruning, and the problem tables with repair.      *)
(*                                                                         *)
(* JavaScript objects are modelled by a heap: V maps Variable object ids   *)
(* to their fields and C maps Computation object ids to theirs.  The       *)
(* tables (variables, computations, problem_variables, ...) map names to   *)
(* object ids.  Maps and Sets whose iteration order the code relies on are *)
(* insertion-ordered sequences.  The kernel operators are functions from a *)
(* kernel record to a kernel record; the actions below apply them.         *)
(***************************************************************************)
EXTENDS Integers, Sequences, FiniteSets, TLC

\* the method table of the kernel (defined after the methods): Call(m, <<args>>)
\* invokes method m, so that the methods may call each other in any order
RECURSIVE Call(_, _)

\* ---------------------------------------------------------------- bounds
\* host operations (define / update / remove / observe / unsubscribe) per run
MaxOps == 4
\* updateSource calls after the diamond fixture
MaxDiamondOps == 2
\* host operations after the dynamic-dependency fixture
MaxDynamicOps == 4

\* ------------------------------------------------------------- constants
\* the default of options.maxConcurrent
maxConcurrent == 16
\* "no object" reference (null / undefined)
NoObj == 0

\* ------------------------------------------------------------ Result<T>
Success(v) == [type |-> "success", value |-> v, error |-> "none"]
ErrorResult(e) == [type |-> "error", value |-> 0, error |-> e]
Fatal(e) == [type |-> "fatal", value |-> 0, error |-> e]
Uninitialized == [type |-> "uninitialized", value |-> 0, error |-> "none"]

\* deepEqual(oldValue, value) on the primitive values of the model, where
\* oldValue is undefined unless the old result is a success
valueChanged(oldResult, value) == ~(oldResult.type = "success" /\ oldResult.value = value)

\* ------------------------------------------- insertion-ordered Set / Map
Range(s) == {s[i] : i \in 1..Len(s)}
SetAdd(s, e) == IF e \in Range(s) THEN s ELSE Append(s, e)
SetDelete(s, e) == SelectSeq(s, LAMBDA x : x # e)
MapHas(m, key) == \E i \in 1..Len(m) : m[i].k = key
MapGet(m, key) == IF MapHas(m, key) THEN m[CHOOSE i \in 1..Len(m) : m[i].k = key].v ELSE NoObj
MapSet(m, key, val) == IF MapHas(m, key) THEN [i \in 1..Len(m) |-> IF m[i].k = key THEN [k |-> key, v |-> val] ELSE m[i]] ELSE Append(m, [k |-> key, v |-> val])
MapDelete(m, key) == SelectSeq(m, LAMBDA e : e.k # key)
MapKeys(m) == [i \in 1..Len(m) |-> m[i].k]
MapValues(m) == [i \in 1..Len(m) |-> m[i].v]
SeqMax(s, floor) == IF Len(s) = 0 THEN floor ELSE CHOOSE x \in Range(s) : \A y \in Range(s) : y <= x

\* ------------------------------------------------------------ the heap
NewVarId(k) == Cardinality(DOMAIN k.V) + 1
NewCompId(k) == Cardinality(DOMAIN k.C) + 1

\* new Variable(id, {...})
Variable(id, result, value_at, cause_at, dirty, producer) == [id |-> id, result |-> result, value_at |-> value_at, cause_at |-> cause_at, dirty |-> dirty, producer |-> producer, dependents |-> <<>>, observers |-> <<>>, observeCount |-> 0]

\* the definition property of a Computation object that never was a problem computation
NoDefinition == [id |-> "none", inputs |-> <<>>, outputs |-> <<>>, body |-> [kind |-> "none", reads |-> <<>>]]
\* the problemReason property of such an object
NoReason == [type |-> "none", missingInputs |-> <<>>, cyclePath |-> <<>>, conflictsWith |-> "none"]

\* new Computation(id, staticInputs, outputs, body, options)
Computation(id, staticInputs, outputs, body, cause_at, dirtyInputCount, input_version, observeCount, dirty) == [id |-> id, staticInputs |-> staticInputs, runtimeInputs |-> <<>>, outputs |-> outputs, body |-> body, cause_at |-> cause_at, input_version |-> input_version, runningTask |-> NoObj, abortingTasks |-> {}, dirty |-> dirty, observeCount |-> observeCount, dirtyInputCount |-> dirtyInputCount, scheduler |-> FALSE, problemReason |-> NoReason, missingInputs |-> <<>>, definition |-> NoDefinition]

\* Computation.state
state(c) == IF ~c.dirty \/ c.observeCount = 0 THEN "idle" ELSE IF c.dirtyInputCount > 0 THEN "pending" ELSE "ready"

\* ReactiveModuleCore._getVariable: the normal table first, then the problem table
getVariable(k, id) == IF MapHas(k.variables, id) THEN MapGet(k.variables, id) ELSE MapGet(k.problem_variables, id)

\* ReactiveModuleCore.nextLogicalClock
nextLogicalClock(k) == [k EXCEPT !.logicalClock = @ + 1]

\* ReactiveModuleCore.isInputOfComputation
isInputOfComputation(k, v, c) == k.V[v].id \in Range(k.C[c].staticInputs)

\* ReactiveModulePropagation.getMaxInputVersion
getMaxInputVersion(k, inputs) == SeqMax([i \in 1..Len(inputs) |-> k.V[inputs[i]].value_at] \o <<0>>, 0)

\* Math.max(...runtimeInputs.map(v => v.cause_at)); -1 stands for -Infinity
maxInputCauseAt(k, inputs) == SeqMax([i \in 1..Len(inputs) |-> k.V[inputs[i]].cause_at], -1)

\* ReactiveModulePropagation.isStale
isStale(k, c) == IF k.C[c].input_version = 0 THEN TRUE ELSE getMaxInputVersion(k, k.C[c].runtimeInputs) > k.C[c].input_version

\* addToReadyQueue that dispatches at once instead of arming setTimeout(0)
addToReadyQueueSynchronous(k, c) == IF c \notin Range(k.readyQueue) /\ k.C[c].runningTask = NoObj THEN Call("scheduleNext", <<[k EXCEPT !.readyQueue = Append(@, c)]>>) ELSE k

\* ReactiveModuleSchedule.addToReadyQueue
addToReadyQueue(k, c) == IF c \notin Range(k.readyQueue) /\ k.C[c].runningTask = NoObj THEN [k EXCEPT !.readyQueue = Append(@, c), !.scheduleScheduled = TRUE] ELSE k

\* Computation.checkScheduleNeeded
checkScheduleNeeded(k, c, newState) == IF newState = "ready" /\ k.C[c].runningTask = NoObj /\ k.C[c].scheduler THEN Call("addToReadyQueue", <<k, c>>) ELSE k

\* the unsubscribe closure returned by _observe, for the temporary observer
\* of task t on Variable v: observers.delete(callback); propagate -1
unsubscribeTemp(k, v, t) ==
    LET k1 == [k EXCEPT !.V[v].observers = SetDelete(@, [kind |-> "task", id |-> t])]
    IN Call("propagateObserveCountUpward", <<k1, v, -1>>)

\* AbortController.abort() of task t: the signal becomes aborted and the
\* abortHandler of a pending waitForVariableViaObserve runs synchronously
\* (unsubscribe, reject with AbortException)
abortSignal(k, t) ==
    IF t \notin DOMAIN k.tasks THEN k
    ELSE IF k.tasks[t].pc = "wait"
    THEN Call("unsubscribeTemp", <<[k EXCEPT !.tasks[t].aborted = TRUE, !.tasks[t].pc = "rejected"], k.tasks[t].waitVar, t>>)
    ELSE [k EXCEPT !.tasks[t].aborted = TRUE]

\* Computation.abortTask
abortTask(k, c) ==
    IF k.C[c].runningTask = NoObj THEN k
    ELSE LET t == k.C[c].runningTask
             k1 == Call("abortSignal", <<k, t>>)
             k2 == [k1 EXCEPT !.C[c].abortingTasks = @ \cup {t}, !.C[c].runningTask = NoObj]
         IN Call("checkScheduleNeeded", <<k2, c, state(k2.C[c])>>)

\* Computation.checkAbortNeeded
checkAbortNeeded(k, c, oldState, newState) ==
    IF oldState # "ready" \/ k.C[c].runningTask = NoObj THEN k
    ELSE IF newState = "pending" THEN Call("abortTask", <<k, c>>)
    ELSE IF newState = "idle" /\ k.C[c].dirty THEN Call("abortTask", <<k, c>>)
    ELSE k

\* Computation.onStateChange
onStateChange(k, c, oldState) ==
    LET newState == state(k.C[c])
    IN IF oldState = newState THEN k
       ELSE Call("checkScheduleNeeded", <<Call("checkAbortNeeded", <<k, c, oldState, newState>>), c, newState>>)

\* Computation: set dirty(value)
setDirty(k, c, value) == IF k.C[c].dirty = value THEN k ELSE Call("onStateChange", <<[k EXCEPT !.C[c].dirty = value], c, state(k.C[c])>>)

\* Computation: set observeCount(value)
setObserveCount(k, c, value) == IF k.C[c].observeCount = value THEN k ELSE Call("onStateChange", <<[k EXCEPT !.C[c].observeCount = value], c, state(k.C[c])>>)

\* Computation: set dirtyInputCount(value)
setDirtyInputCount(k, c, value) == IF k.C[c].dirtyInputCount = value THEN k ELSE Call("onStateChange", <<[k EXCEPT !.C[c].dirtyInputCount = value], c, state(k.C[c])>>)

\* Computation.checkAbortOnCauseAtChange
checkAbortOnCauseAtChange(k, c, newCauseAt) ==
    IF k.C[c].runningTask = NoObj THEN k
    ELSE IF k.tasks[k.C[c].runningTask].cause_at < newCauseAt THEN Call("abortTask", <<k, c>>)
    ELSE k

\* Computation: set cause_at(value)
setCauseAt(k, c, value) == IF k.C[c].cause_at = value THEN k ELSE Call("checkAbortOnCauseAtChange", <<[k EXCEPT !.C[c].cause_at = value], c, value>>)

\* ReactiveModulePropagation._propagateObserveCountUpward
propagateObserveCountUpward(k, v, delta) ==
    IF delta = 0 THEN k
    ELSE LET k1 == [k EXCEPT !.V[v].observeCount = @ + delta]
             p == k1.V[v].producer
         IN IF p = NoObj THEN k1
            ELSE LET k2 == Call("setObserveCount", <<k1, p, k1.C[p].observeCount + delta>>)
                     ins == k2.C[p].runtimeInputs
                     RECURSIVE up(_, _)
                     up(kk, i) == IF i > Len(ins) THEN kk ELSE up(Call("propagateObserveCountUpward", <<kk, ins[i], delta>>), i + 1)
                     k3 == up(k2, 1)
                     m == maxInputCauseAt(k3, k3.C[p].runtimeInputs)
                 IN IF delta > 0 /\ ~k3.C[p].dirty /\ isStale(k3, p) /\ m > k3.C[p].cause_at
                    THEN Call("propagateCauseAtDownward", <<k3, p, m, NoObj, FALSE>>)
                    ELSE k3

\* tryIncrementDirtyInputCount that never counts the dirty input
tryIncrementDirtyInputCountNever(k, c, sourceVariable, isNewDirty) == k

\* ReactiveModulePropagation.tryIncrementDirtyInputCount
tryIncrementDirtyInputCount(k, c, sourceVariable, isNewDirty) ==
    IF ~isNewDirty \/ sourceVariable = NoObj THEN k
    ELSE IF ~isInputOfComputation(k, sourceVariable, c) THEN k
    ELSE IF k.V[sourceVariable].producer # NoObj /\ k.V[sourceVariable].dirty
    THEN Call("setDirtyInputCount", <<k, c, k.C[c].dirtyInputCount + 1>>)
    ELSE k

\* ReactiveModulePropagation.updateCauseAt
updateCauseAt(k, c, newCauseAt) == Call("setCauseAt", <<k, c, newCauseAt>>)

\* ReactiveModulePropagation.propagateToOutputs
propagateToOutputs(k, c, newCauseAt) ==
    LET outs == MapValues(k.C[c].outputs)
        RECURSIVE down(_, _, _, _, _)
        down(kk, deps, j, o, isOutputNewDirty) ==
            IF j > Len(deps) THEN kk
            ELSE down(Call("propagateCauseAtDownward", <<kk, deps[j], newCauseAt, o, isOutputNewDirty>>), deps, j + 1, o, isOutputNewDirty)
        RECURSIVE each(_, _)
        each(kk, i) ==
            IF i > Len(outs) THEN kk
            ELSE LET o == outs[i]
                     wasOutputDirty == kk.V[o].dirty
                     k1 == [kk EXCEPT !.V[o].cause_at = kk.C[c].cause_at, !.V[o].dirty = TRUE]
                 IN each(down(k1, k1.V[o].dependents, 1, o, ~wasOutputDirty), i + 1)
    IN each(k, 1)

\* ReactiveModulePropagation._propagateCauseAtDownward
propagateCauseAtDownward(k, c, newCauseAt, sourceVariable, isNewDirty) ==
    LET k1 == Call("tryIncrementDirtyInputCount", <<k, c, sourceVariable, isNewDirty>>)
    IN IF newCauseAt <= k1.C[c].cause_at THEN k1
       ELSE Call("propagateToOutputs", <<Call("setDirty", <<Call("updateCauseAt", <<k1, c, newCauseAt>>), c, TRUE>>), c, newCauseAt>>)

\* ReactiveModulePropagation._markDirty
markDirty(k, v, t, isNewDirty) ==
    LET deps == k.V[v].dependents
        RECURSIVE each(_, _)
        each(kk, i) == IF i > Len(deps) THEN kk ELSE each(Call("propagateCauseAtDownward", <<kk, deps[i], t, v, isNewDirty>>), i + 1)
    IN each(k, 1)

\* the callback that waitForVariableViaObserve registers for task t: it
\* resolves (and unsubscribes) only when the variable captured by the closure
\* is no longer dirty
tempObserverCallback(k, t, result) ==
    LET v == k.tempObserved[t]
    IN IF k.V[v].dirty THEN k
       ELSE IF t \in DOMAIN k.tasks /\ k.tasks[t].pc = "wait"
       THEN Call("unsubscribeTemp", <<[k EXCEPT !.tasks[t].pc = "resume", !.tasks[t].res = result], v, t>>)
       ELSE Call("unsubscribeTemp", <<k, v, t>>)

\* ReactiveModulePropagation.notifyObservers: observer(variable.result) is not
\* guarded, the exception of a throwing callback ends the loop and propagates
notifyObservers(k, v) ==
    LET obs == k.V[v].observers
        RECURSIVE each(_, _)
        each(kk, i) ==
            IF i > Len(obs) THEN kk
            ELSE IF obs[i] \notin Range(kk.V[v].observers) THEN each(kk, i + 1)
            ELSE IF obs[i].kind = "task" THEN each(Call("tempObserverCallback", <<kk, obs[i].id, kk.V[v].result>>), i + 1)
            ELSE IF obs[i].kind = "get" THEN each(Call("getValueCallback", <<kk, obs[i].id, kk.V[v].result>>), i + 1)
            ELSE LET k1 == [kk EXCEPT !.delivered[obs[i].id] = Append(@, kk.V[v].result)]
                 IN IF obs[i].id \in kk.throwing THEN [k1 EXCEPT !.thrown = TRUE] ELSE each(k1, i + 1)
    IN each(k, 1)

\* ReactiveModulePropagation.decrementDirtyInputCount
decrementDirtyInputCount(k, c, v) == IF k.V[v].producer # NoObj THEN Call("setDirtyInputCount", <<k, c, k.C[c].dirtyInputCount - 1>>) ELSE k

\* ReactiveModulePropagation._cleanVariable
cleanVariable(k, v) ==
    LET k1 == Call("notifyObservers", <<k, v>>)
        deps == k1.V[v].dependents
        RECURSIVE each(_, _)
        each(kk, i) ==
            IF i > Len(deps) THEN kk
            ELSE IF isInputOfComputation(kk, v, deps[i]) THEN each(Call("decrementDirtyInputCount", <<kk, deps[i], v>>), i + 1)
            ELSE each(kk, i + 1)
    IN IF k1.thrown THEN k1 ELSE each(k1, 1)

\* ReactiveModulePropagation._updateSource (a throw leaves the clock advanced)
updateSourceInternal(k, id, value) ==
    LET k1 == nextLogicalClock(k)
        t == k1.logicalClock
        v == getVariable(k1, id)
    IN IF v = NoObj THEN k1
       ELSE IF k1.V[v].producer # NoObj THEN k1
       ELSE LET k2 == IF valueChanged(k1.V[v].result, value) THEN [k1 EXCEPT !.V[v].result = Success(value), !.V[v].value_at = t] ELSE k1
                k3 == [k2 EXCEPT !.V[v].cause_at = t, !.V[v].dirty = FALSE]
            IN Call("cleanVariable", <<Call("markDirty", <<k3, v, t, TRUE>>), v>>)

\* ReactiveModulePropagation.cleanOutputDirty
cleanOutputDirty(k, c) ==
    LET outs == MapValues(k.C[c].outputs)
        RECURSIVE each(_, _)
        each(kk, i) == IF i > Len(outs) \/ kk.thrown THEN kk ELSE each(Call("cleanVariable", <<[kk EXCEPT !.V[outs[i]].dirty = FALSE], outs[i]>>), i + 1)
    IN each(k, 1)

\* ReactiveModuleCore._observe for host observer handle h (NoObj: not found, throws)
observeInternal(k, id, h) ==
    LET v == getVariable(k, id)
    IN IF v = NoObj THEN k
       ELSE LET k1 == [k EXCEPT !.V[v].observers = SetAdd(@, [kind |-> "cb", id |-> h]), !.handles[h] = [var |-> v, active |-> TRUE]]
                k2 == Call("propagateObserveCountUpward", <<k1, v, 1>>)
            IN IF k2.V[v].dirty = FALSE THEN [k2 EXCEPT !.delivered[h] = Append(@, k2.V[v].result)] ELSE k2

\* the Unsubscribe closure returned by _observe
unsubscribe(k, h) ==
    LET v == k.handles[h].var
        k1 == [k EXCEPT !.V[v].observers = SetDelete(@, [kind |-> "cb", id |-> h]), !.handles[h].active = FALSE]
    IN Call("propagateObserveCountUpward", <<k1, v, -1>>)

\* the observer that waitForVariableViaObserve registers for a getValue of
\* the host (no signal): when the variable captured by the closure is no
\* longer dirty it unsubscribes and resolves the promise h with the result
getValueCallback(k, h, result) ==
    LET v == k.handles[h].var
        k1 == [k EXCEPT !.V[v].observers = SetDelete(@, [kind |-> "get", id |-> h]), !.handles[h].active = FALSE]
    IN IF k.V[v].dirty THEN k
       ELSE [Call("propagateObserveCountUpward", <<k1, v, -1>>) EXCEPT !.delivered[h] = Append(@, result)]

\* ReactiveModule.getValue / getValueResult -> _evaluate: a clean variable and
\* a source settle the promise h at once, a dirty computed variable is
\* awaited through a temporary observer
getValue(k, id, h) ==
    LET v == getVariable(k, id)
        k1 == [k EXCEPT !.V[v].observers = SetAdd(@, [kind |-> "get", id |-> h]), !.handles[h] = [var |-> v, active |-> TRUE]]
    IN IF v = NoObj THEN k
       ELSE IF ~k.V[v].dirty \/ k.V[v].producer = NoObj THEN [k EXCEPT !.handles[h] = [var |-> v, active |-> FALSE], !.delivered[h] = Append(@, k.V[v].result)]
       ELSE Call("propagateObserveCountUpward", <<k1, v, 1>>)

\* ------------------------------------------------------------- bodies
\* A body is [kind, reads]: it awaits scope.<name> for the names of reads in
\* order and then returns one value for every output, or throws.
\*   "sum"   returns the sum of the values read plus one
\*   "const" returns ConstValue whatever it read
\*   "cond"  reads reads[1] and, only if that is CondValue, reads[2]; returns the sum
\*   "throw" throws, after its reads, an error that names the sum of the values read
ConstValue == 7
CondValue == 2
SumSeq(s) == LET RECURSIVE sum(_)
                 sum(i) == IF i > Len(s) THEN 0 ELSE s[i] + sum(i + 1)
             IN sum(1)
nextRead(body, vals) ==
    IF body.kind = "cond"
    THEN IF Len(vals) = 0 /\ Len(body.reads) >= 1 THEN body.reads[1]
         ELSE IF Len(vals) = 1 /\ vals[1] = CondValue /\ Len(body.reads) >= 2 THEN body.reads[2]
         ELSE "none"
    ELSE IF Len(vals) < Len(body.reads) THEN body.reads[Len(vals) + 1] ELSE "none"
bodyThrows(body) == body.kind = "throw"
bodyError(body, vals) == "E" \o ToString(SumSeq(vals))
bodyValue(body, vals) == IF body.kind = "const" THEN ConstValue ELSE IF body.kind = "cond" THEN SumSeq(vals) ELSE SumSeq(vals) + 1

\* ----------------------------------------------------------- execution
\* shouldExecute without input pruning
shouldExecuteAlways(k, c) == TRUE

\* ReactiveModuleExecution.shouldExecute
shouldExecute(k, c) == IF k.C[c].input_version = 0 THEN TRUE ELSE getMaxInputVersion(k, k.C[c].runtimeInputs) > k.C[c].input_version

\* ReactiveModuleExecution.maybeSkipExecution (the skipping branch)
maybeSkipExecution(k, c) ==
    LET k1 == Call("cleanOutputDirty", <<k, c>>)
    IN IF k1.thrown THEN k1 ELSE Call("setDirty", <<k1, c, FALSE>>)

\* ReactiveModuleExecution.setupExecutionTask, and the call of comp.body
setupExecutionTask(k, c, taskId) ==
    LET task == [comp |-> c, cause_at |-> k.C[c].cause_at, aborted |-> FALSE, pc |-> "run", body |-> k.C[c].body, accessed |-> {}, vals |-> <<>>, waitVar |-> NoObj, res |-> Uninitialized, startObserveCount |-> k.C[c].observeCount, startInProblemTable |-> MapGet(k.problem_computations, k.C[c].id) = c, startCompId |-> k.C[c].id]
    IN [k EXCEPT !.C[c].runningTask = taskId, !.tasks = (taskId :> task) @@ @, !.bodyStarts = (k.C[c].id :> ((IF k.C[c].id \in DOMAIN @ THEN @[k.C[c].id] ELSE 0) + 1)) @@ @]

\* _executeComputation with guard check 1 (state Ready, observeCount > 0) left out
executeComputationUnguarded(k, c) ==
    LET k1 == [k EXCEPT !.taskIdCounter = @ + 1]
    IN IF ~shouldExecute(k1, c) THEN Call("maybeSkipExecution", <<k1, c>>)
       ELSE Call("setupExecutionTask", <<k1, c, k1.taskIdCounter>>)

\* ReactiveModuleExecution._executeComputation up to the first await
executeComputation(k, c) ==
    IF state(k.C[c]) # "ready" \/ k.C[c].observeCount = 0 THEN k
    ELSE LET k1 == [k EXCEPT !.taskIdCounter = @ + 1]
         IN IF ~shouldExecute(k1, c) THEN Call("maybeSkipExecution", <<k1, c>>)
            ELSE Call("setupExecutionTask", <<k1, c, k1.taskIdCounter>>)

\* ReactiveModuleSchedule.isIdle
isIdle(k) == Len(k.readyQueue) = 0 /\ k.runningTasksCount = 0 /\ k.scheduleScheduled = FALSE

\* checkIdle that never calls the resolvers in idleWaiters
checkIdleNever(k) == k

\* ReactiveModuleSchedule.checkIdle
checkIdle(k) == IF isIdle(k) /\ k.idleWaiters > 0 THEN [k EXCEPT !.idleWaiters = 0, !.idleResolved = @ + k.idleWaiters] ELSE k

\* ReactiveModuleSchedule.waitIdle: returns at once when the module is idle
\* (no field changes), else the resolver of its promise joins idleWaiters
waitIdle(k) == IF isIdle(k) THEN k ELSE [k EXCEPT !.idleWaiters = @ + 1]

\* "_executeComputation(comp).catch(...)": the rejection is logged, not rethrown
caught(k) == [k EXCEPT !.thrown = FALSE]

\* the while loop of _scheduleNext without the test of options.maxConcurrent
dispatchLoopUnbounded(k) ==
    LET RECURSIVE loop(_, _)
        loop(kk, imm) ==
            IF Len(kk.readyQueue) > 0
            THEN LET c == Head(kk.readyQueue)
                     k1 == [kk EXCEPT !.readyQueue = Tail(@)]
                 IN IF k1.C[c].runningTask # NoObj THEN loop(k1, imm)
                    ELSE LET k2 == caught(Call("executeComputation", <<[k1 EXCEPT !.runningTasksCount = @ + 1], c>>))
                         IN loop(k2, IF k2.C[c].runningTask # NoObj THEN imm ELSE imm + 1)
            ELSE <<kk, imm>>
    IN loop(k, 0)

\* the while loop of _scheduleNext; the second component counts the
\* dispatched executions that returned without starting a body
dispatchLoop(k) ==
    LET RECURSIVE loop(_, _)
        loop(kk, imm) ==
            IF kk.runningTasksCount < kk.options.maxConcurrent /\ Len(kk.readyQueue) > 0
            THEN LET c == Head(kk.readyQueue)
                     k1 == [kk EXCEPT !.readyQueue = Tail(@)]
                 IN IF k1.C[c].runningTask # NoObj THEN loop(k1, imm)
                    ELSE LET k2 == caught(Call("executeComputation", <<[k1 EXCEPT !.runningTasksCount = @ + 1], c>>))
                         IN loop(k2, IF k2.C[c].runningTask # NoObj THEN imm ELSE imm + 1)
            ELSE <<kk, imm>>
    IN loop(k, 0)

\* a .finally callback that leaves runningTasksCount as it is
drainFinallyKeepsCount(k, n) ==
    IF n = 0 THEN k
    ELSE LET r == Call("dispatchLoop", <<k>>)
         IN Call("drainFinally", <<Call("checkIdle", <<r[1]>>), n - 1 + r[2]>>)

\* ReactiveModuleSchedule._scheduleNext followed by the .finally callbacks of
\* the n executions whose promise is already settled (runningTasksCount--,
\* _scheduleNext again), in the order the microtask queue runs them
drainFinally(k, n) ==
    IF n = 0 THEN k
    ELSE LET r == Call("dispatchLoop", <<[k EXCEPT !.runningTasksCount = @ - 1]>>)
         IN Call("drainFinally", <<Call("checkIdle", <<r[1]>>), n - 1 + r[2]>>)
scheduleNext(k) ==
    LET r == Call("dispatchLoop", <<k>>)
    IN Call("drainFinally", <<Call("checkIdle", <<r[1]>>), r[2]>>)

\* ReactiveModuleExecution.updateOutputs, committing for task t
updateOutputs(k, c, value, t) ==
    LET outs == MapValues(k.C[c].outputs)
        hasValueChange == \E i \in 1..Len(outs) : valueChanged(k.V[outs[i]].result, value)
        k0 == IF hasValueChange THEN nextLogicalClock(k) ELSE k
        newValueAt == IF hasValueChange THEN k0.logicalClock ELSE 0
        RECURSIVE each(_, _)
        each(kk, i) ==
            IF i > Len(outs) \/ kk.thrown THEN kk
            ELSE LET o == outs[i]
                     k1 == IF valueChanged(kk.V[o].result, value) THEN [kk EXCEPT !.V[o].result = Success(value), !.V[o].value_at = newValueAt] ELSE kk
                     k2 == [k1 EXCEPT !.V[o].cause_at = k1.C[c].cause_at, !.V[o].dirty = FALSE, !.lateWrite = @ \/ k1.tasks[t].aborted]
                 IN each(Call("cleanVariable", <<k2, o>>), i + 1)
    IN each(k0, 1)

\* ReactiveModuleExecution.updateOutputsWithError, committing for task t
updateOutputsWithError(k, c, error, t) ==
    LET outs == MapValues(k.C[c].outputs)
        RECURSIVE each(_, _)
        each(kk, i) ==
            IF i > Len(outs) \/ kk.thrown THEN kk
            ELSE LET o == outs[i]
                     k1 == nextLogicalClock(kk)
                     k2 == [k1 EXCEPT !.V[o].result = ErrorResult(error), !.V[o].value_at = k1.logicalClock, !.V[o].cause_at = k1.C[c].cause_at, !.V[o].dirty = FALSE, !.lateWrite = @ \/ k1.tasks[t].aborted]
                 IN each(Call("cleanVariable", <<k2, o>>), i + 1)
    IN each(k, 1)

\* ReactiveModuleExecution.cleanUnusedInputs
cleanUnusedInputs(k, c, accessedVariables) ==
    LET toRemove == SelectSeq(k.C[c].runtimeInputs, LAMBDA v : v \notin accessedVariables)
        RECURSIVE each(_, _)
        each(kk, i) ==
            IF i > Len(toRemove) THEN kk
            ELSE LET input == toRemove[i]
                     k1 == [kk EXCEPT !.C[c].runtimeInputs = SetDelete(@, input), !.V[input].dependents = SetDelete(@, c)]
                     k2 == IF k1.C[c].observeCount > 0 THEN Call("propagateObserveCountUpward", <<k1, input, 0 - k1.C[c].observeCount>>) ELSE k1
                     k3 == IF k2.V[input].dirty /\ k2.V[input].producer # NoObj THEN Call("setDirtyInputCount", <<k2, c, k2.C[c].dirtyInputCount - 1>>) ELSE k2
                 IN each(k3, i + 1)
    IN each(k, 1)

\* ReactiveModuleExecution.trackVariableAccess for task t; err is the
\* exception it throws ("none": returns normally)
trackVariableAccess(k, c, v, t) ==
    LET k0 == [k EXCEPT !.tasks[t].accessed = @ \cup {v}]
        preUpdateTask(kk) == IF kk.V[v].cause_at > kk.C[c].cause_at /\ kk.C[c].runningTask # NoObj /\ kk.C[c].runningTask \in DOMAIN kk.tasks THEN [kk EXCEPT !.tasks[kk.C[c].runningTask].cause_at = kk.V[v].cause_at] ELSE kk
        establish(kk) == [kk EXCEPT !.C[c].runtimeInputs = SetAdd(@, v), !.V[v].dependents = SetAdd(@, c)]
        propagateObserve(kk) == IF kk.C[c].observeCount > 0 THEN Call("propagateObserveCountUpward", <<kk, v, kk.C[c].observeCount>>) ELSE kk
        propagateCause(kk) == IF kk.V[v].cause_at > kk.C[c].cause_at THEN Call("propagateCauseAtDownward", <<kk, c, kk.V[v].cause_at, v, FALSE>>) ELSE kk
        countDirty(kk) == IF kk.V[v].dirty THEN Call("setDirtyInputCount", <<kk, c, kk.C[c].dirtyInputCount + 1>>) ELSE kk
    IN IF v \in Range(k0.C[c].runtimeInputs) THEN [k |-> k0, err |-> "none"]
       ELSE IF k0.tasks[t].aborted THEN [k |-> k0, err |-> "abort"]
       ELSE IF k0.V[v].id \notin Range(k0.C[c].staticInputs) THEN [k |-> k0, err |-> "not-in-staticInputs"]
       ELSE [k |-> countDirty(propagateCause(propagateObserve(establish(preUpdateTask(k0))))), err |-> "none"]

\* ReactiveModuleExecution.handleExecutionFinally
handleExecutionFinally(k, c, t) ==
    LET k1 == IF k.C[c].runningTask = t THEN [k EXCEPT !.C[c].runningTask = NoObj] ELSE [k EXCEPT !.C[c].abortingTasks = @ \ {t}]
        m == maxInputCauseAt(k1, k1.C[c].runtimeInputs)
    IN IF k1.C[c].dirty /\ Len(k1.C[c].runtimeInputs) > 0 /\ m > k1.C[c].cause_at
       THEN LET k2 == Call("setCauseAt", <<k1, c, m>>)
                outs == MapValues(k2.C[c].outputs)
            IN [k2 EXCEPT !.V = [o \in DOMAIN @ |-> IF o \in Range(outs) THEN [@[o] EXCEPT !.cause_at = k2.C[c].cause_at] ELSE @[o]]]
       ELSE k1

\* the promise of _executeComputation settles: the task record is dropped and
\* the .finally callback of _scheduleNext runs
settleTask(k, t) == Call("drainFinally", <<caught([k EXCEPT !.tasks = [u \in DOMAIN @ \ {t} |-> @[u]]]), 1>>)

\* ReactiveModuleExecution.handleExecutionSuccess, then finally; an exception
\* out of updateOutputs is caught by the catch block of _executeComputation
handleExecutionSuccess(k, t) ==
    LET c == k.tasks[t].comp
        k1 == Call("updateOutputs", <<k, c, bodyValue(k.tasks[t].body, k.tasks[t].vals), t>>)
        k2 == Call("cleanUnusedInputs", <<k1, c, k1.tasks[t].accessed>>)
        k3 == Call("setDirty", <<[k2 EXCEPT !.lateWrite = @ \/ k2.tasks[t].aborted], c, FALSE>>)
        k4 == [k3 EXCEPT !.C[c].input_version = getMaxInputVersion(k3, k3.C[c].runtimeInputs)]
    IN IF k1.thrown THEN Call("handleExecutionError", <<caught(k1), t, "observer">>)
       ELSE Call("settleTask", <<Call("handleExecutionFinally", <<k4, c, t>>), t>>)

\* ReactiveModuleExecution.isAbortError
isAbortError(error) == error = "abort"

\* handleExecutionError that leaves the computation dirty after the error commit
handleExecutionErrorDirty(k, t, error) ==
    LET c == k.tasks[t].comp
        k1 == IF isAbortError(error) THEN k
              ELSE Call("updateOutputsWithError", <<k, c, error, t>>)
    IN Call("settleTask", <<Call("handleExecutionFinally", <<k1, c, t>>), t>>)

\* ReactiveModuleExecution.handleExecutionError, then finally
handleExecutionError(k, t, error) ==
    LET c == k.tasks[t].comp
        k1 == IF isAbortError(error) THEN k
              ELSE LET k2 == Call("updateOutputsWithError", <<k, c, error, t>>)
                       k3 == Call("setDirty", <<[k2 EXCEPT !.lateWrite = @ \/ k2.tasks[t].aborted], c, FALSE>>)
                   IN IF k2.thrown THEN k2 ELSE [k3 EXCEPT !.C[c].input_version = getMaxInputVersion(k3, k3.C[c].runtimeInputs)]
    IN Call("settleTask", <<Call("handleExecutionFinally", <<k1, c, t>>), t>>)

\* the rest of scopeGetter after "await _evaluate" produced result for v
afterEvaluate(k, t, v, result) ==
    LET r == Call("trackVariableAccess", <<k, k.tasks[t].comp, v, t>>)
    IN IF r.err # "none" THEN Call("handleExecutionError", <<r.k, t, r.err>>)
       ELSE IF result.type = "error" \/ result.type = "fatal" THEN Call("handleExecutionError", <<r.k, t, result.error>>)
       ELSE IF result.type = "uninitialized" THEN Call("handleExecutionError", <<r.k, t, "uninitialized">>)
       ELSE [r.k EXCEPT !.tasks[t].vals = Append(@, result.value), !.tasks[t].pc = "run"]

\* ReactiveModuleExecution.waitForVariableViaObserve: temporary _observe
waitForVariableViaObserve(k, t, v) ==
    LET k1 == [k EXCEPT !.V[v].observers = SetAdd(@, [kind |-> "task", id |-> t]), !.tasks[t].pc = "wait", !.tasks[t].waitVar = v, !.tempObserved = (t :> v) @@ @]
        k2 == Call("propagateObserveCountUpward", <<k1, v, 1>>)
    IN IF k2.V[v].dirty = FALSE /\ k2.tasks[t].pc = "wait" THEN [k2 EXCEPT !.tasks[t].pc = "resume", !.tasks[t].res = k2.V[v].result] ELSE k2

\* ReactiveModuleExecution.scopeGetter / _evaluate: task t awaits scope.<id>
scopeGetter(k, t, id) ==
    IF k.tasks[t].aborted THEN Call("handleExecutionError", <<k, t, "abort">>)
    ELSE LET v == getVariable(k, id)
         IN IF v = NoObj THEN Call("handleExecutionError", <<k, t, "not-found">>)
            ELSE IF ~k.V[v].dirty \/ k.V[v].producer = NoObj THEN Call("afterEvaluate", <<k, t, v, k.V[v].result>>)
            ELSE Call("waitForVariableViaObserve", <<k, t, v>>)

\* one step of the body of task t and of the code of _executeComputation
\* that follows it
taskStep(k, t) ==
    LET task == k.tasks[t]
        id == nextRead(task.body, task.vals)
    IN IF task.pc = "resume" THEN Call("afterEvaluate", <<k, t, task.waitVar, task.res>>)
       ELSE IF task.pc = "rejected" THEN Call("handleExecutionError", <<k, t, "abort">>)
       ELSE IF id # "none" THEN Call("scopeGetter", <<k, t, id>>)
       ELSE IF bodyThrows(task.body) THEN Call("handleExecutionError", <<k, t, bodyError(task.body, task.vals)>>)
       ELSE IF task.aborted THEN Call("handleExecutionError", <<k, t, "abort">>)
       ELSE Call("handleExecutionSuccess", <<k, t>>)

\* ------------------------------------------------------ dependency graph
\* getComputationShapeFromExisting
getComputationShapeFromExisting(k, c) == [id |-> k.C[c].id, inputs |-> k.C[c].staticInputs, outputs |-> MapKeys(k.C[c].outputs)]

\* buildDependencyGraph: producerByOutput (the last shape that lists the output)
producerByOutput(shapes, out) ==
    LET idxs == {i \in 1..Len(shapes) : out \in Range(shapes[i].outputs)}
    IN IF idxs = {} THEN "none" ELSE shapes[CHOOSE i \in idxs : \A j \in idxs : j <= i].id

\* buildDependencyGraph: graph.get(node), the consumers of node in insertion order
graphNeighbors(shapes, node) ==
    LET RECURSIVE byInput(_, _, _)
        byInput(acc, i, j) ==
            IF i > Len(shapes) THEN acc
            ELSE IF j > Len(shapes[i].inputs) THEN byInput(acc, i + 1, 1)
            ELSE IF producerByOutput(shapes, shapes[i].inputs[j]) = node THEN byInput(SetAdd(acc, shapes[i].id), i, j + 1)
            ELSE byInput(acc, i, j + 1)
    IN byInput(<<>>, 1, 1)

\* detectCycleFrom: the dfs closure; cycle <<>> stands for null
RECURSIVE dfs(_, _, _, _)
dfs(shapes, node, visited, stack) ==
    LET stack1 == Append(stack, node)
        nbrs == graphNeighbors(shapes, node)
        RECURSIVE scan(_, _)
        scan(i, vis) ==
            IF i > Len(nbrs) THEN [cycle |-> <<>>, visited |-> vis]
            ELSE IF nbrs[i] \notin vis
            THEN LET r == dfs(shapes, nbrs[i], vis, stack1)
                 IN IF r.cycle # <<>> THEN r ELSE scan(i + 1, r.visited)
            ELSE IF nbrs[i] \in Range(stack1)
            THEN [cycle |-> SubSeq(stack1, CHOOSE p \in 1..Len(stack1) : stack1[p] = nbrs[i] /\ \A q \in 1..Len(stack1) : stack1[q] = nbrs[i] => q <= p, Len(stack1)) \o <<nbrs[i]>>, visited |-> vis]
            ELSE scan(i + 1, vis)
    IN scan(1, visited \cup {node})

\* detectCycleFrom
detectCycleFrom(shapes, startId) == dfs(shapes, startId, {}, <<>>).cycle

\* ReactiveModuleDefinition.detectCircularDependencyIfAdded
detectCircularDependencyIfAdded(k, def) ==
    LET healthy == SelectSeq(MapValues(k.computations), LAMBDA c : k.C[c].id # def.id)
        problem == SelectSeq(MapValues(k.problem_computations), LAMBDA c : k.C[c].id # def.id)
        existing == healthy \o problem
        shapes == [i \in 1..Len(existing) |-> getComputationShapeFromExisting(k, existing[i])] \o <<[id |-> def.id, inputs |-> def.inputs, outputs |-> def.outputs]>>
    IN detectCycleFrom(shapes, def.id)

\* ------------------------------------------------- definition primitives
\* ReactiveModuleDefinition.getMissingInputs
getMissingInputs(k, def) == SelectSeq(def.inputs, LAMBDA id : ~MapHas(k.variables, id) /\ ~MapHas(k.problem_variables, id))

\* ReactiveModuleDefinition.getProblemInputs
getProblemInputs(k, def) == SelectSeq(def.inputs, LAMBDA id : MapHas(k.problem_variables, id))

\* ReactiveModuleDefinition.getOutputConflictInfo; "none" stands for null
getOutputConflictInfo(k, def, allowExistingProducerId) ==
    LET conflicting == SelectSeq(def.outputs, LAMBDA out : getVariable(k, out) # NoObj /\ ~(allowExistingProducerId # "none" /\ k.V[getVariable(k, out)].producer # NoObj /\ k.C[k.V[getVariable(k, out)].producer].id = allowExistingProducerId))
    IN IF Len(conflicting) = 0 THEN "none"
       ELSE IF k.V[getVariable(k, conflicting[1])].producer = NoObj THEN "source"
       ELSE k.C[k.V[getVariable(k, conflicting[1])].producer].id

\* ReactiveModuleDefinition.computeInitialCauseAt
computeInitialCauseAt(k, def) ==
    LET present == SelectSeq(def.inputs, LAMBDA id : getVariable(k, id) # NoObj)
    IN SeqMax([i \in 1..Len(present) |-> k.V[getVariable(k, present[i])].cause_at] \o <<0>>, 0)

\* ReactiveModuleDefinition.countInitialDirtyInputs
countInitialDirtyInputs(k, def) == Len(SelectSeq(def.inputs, LAMBDA id : getVariable(k, id) # NoObj /\ k.V[getVariable(k, id)].dirty))

\* ReactiveModuleDefinition.establishDependencies
establishDependencies(k, def, c) ==
    LET RECURSIVE each(_, _)
        each(kk, i) ==
            IF i > Len(def.inputs) THEN kk
            ELSE LET v == getVariable(kk, def.inputs[i])
                 IN IF v = NoObj THEN each(kk, i + 1)
                    ELSE each([kk EXCEPT !.V[v].dependents = SetAdd(@, c), !.C[c].runtimeInputs = SetAdd(@, v)], i + 1)
    IN each(k, 1)

\* the healthy branch of _defineComputation: a new Computation (dirty, with
\* the scheduler attached) and its dirty, uninitialized outputs
defineHealthyComputation(k, def) ==
    LET c == NewCompId(k)
        initialCauseAt == computeInitialCauseAt(k, def)
        comp == [Computation(def.id, def.inputs, <<>>, def.body, initialCauseAt, countInitialDirtyInputs(k, def), 0, 0, TRUE) EXCEPT !.scheduler = TRUE]
        k1 == [k EXCEPT !.C = (c :> comp) @@ @, !.computations = MapSet(@, def.id, c)]
        RECURSIVE outs(_, _)
        outs(kk, i) ==
            IF i > Len(def.outputs) THEN kk
            ELSE LET v == NewVarId(kk)
                 IN outs([kk EXCEPT !.V = (v :> Variable(def.outputs[i], Uninitialized, 0, initialCauseAt, TRUE, c)) @@ @, !.variables = MapSet(@, def.outputs[i], v), !.C[c].outputs = MapSet(@, def.outputs[i], v)], i + 1)
    IN Call("establishDependencies", <<outs(k1, 1), def, c>>)

\* ---------------------------------------------- problem tables and repair
MissingInputReason(ids) == [type |-> "missing-input", missingInputs |-> ids, cyclePath |-> <<>>, conflictsWith |-> "none"]
CircularReason(path) == [type |-> "circular-dependency", missingInputs |-> <<>>, cyclePath |-> path, conflictsWith |-> "none"]
DuplicateOutputReason(producer) == [type |-> "duplicate-output", missingInputs |-> <<>>, cyclePath |-> <<>>, conflictsWith |-> producer]

\* "for (const observer of variable.observers) try { observer(result) } catch {}"
notifyObserversGuarded(k, v) ==
    LET obs == k.V[v].observers
        RECURSIVE each(_, _)
        each(kk, i) ==
            IF i > Len(obs) THEN kk
            ELSE IF obs[i] \notin Range(kk.V[v].observers) THEN each(kk, i + 1)
            ELSE IF obs[i].kind = "task" THEN each(Call("tempObserverCallback", <<kk, obs[i].id, kk.V[v].result>>), i + 1)
            ELSE IF obs[i].kind = "get" THEN each(Call("getValueCallback", <<kk, obs[i].id, kk.V[v].result>>), i + 1)
            ELSE each([kk EXCEPT !.delivered[obs[i].id] = Append(@, kk.V[v].result)], i + 1)
    IN each(k, 1)

\* ReactiveModuleProblemManagement.updateProblemReason
updateProblemReason(k, c) ==
    IF k.C[c].problemReason.type = "missing-input" /\ Len(k.C[c].missingInputs) > 0
    THEN [k EXCEPT !.C[c].problemReason.missingInputs = k.C[c].missingInputs]
    ELSE k

\* "probComp.missingInputs.add(id...); updateProblemReason(probComp)" for the
\* problem computation registered under the name of dependent object dep
mergeMissingInputs(k, dep, ids) ==
    LET p == MapGet(k.problem_computations, k.C[dep].id)
        RECURSIVE addAll(_, _)
        addAll(s, i) == IF i > Len(ids) THEN s ELSE addAll(SetAdd(s, ids[i]), i + 1)
    IN IF k.C[p].problemReason.type = "missing-input"
       THEN Call("updateProblemReason", <<[k EXCEPT !.C[p].missingInputs = addAll(@, 1)], p>>)
       ELSE k

\* the loop "for dep of dependents": healthy dependents are marked as problem,
\* problem dependents get their missing inputs merged (when merge is set)
markDependents(k, deps, ids, merge) ==
    LET RECURSIVE each(_, _)
        each(kk, i) ==
            IF i > Len(deps) THEN kk
            ELSE IF MapHas(kk.computations, kk.C[deps[i]].id) THEN each(Call("markComputationAsProblem", <<kk, deps[i], MissingInputReason(ids)>>), i + 1)
            ELSE IF merge /\ MapHas(kk.problem_computations, kk.C[deps[i]].id) THEN each(Call("mergeMissingInputs", <<kk, deps[i], ids>>), i + 1)
            ELSE each(kk, i + 1)
    IN each(k, 1)

\* "for inputVar of comp.runtimeInputs: dependents.delete(comp); propagate(-observeCount)"
detachRuntimeInputs(k, c) ==
    LET ins == k.C[c].runtimeInputs
        RECURSIVE each(_, _)
        each(kk, i) ==
            IF i > Len(ins) THEN kk
            ELSE LET k1 == [kk EXCEPT !.V[ins[i]].dependents = SetDelete(@, c)]
                 IN each(IF k1.C[c].observeCount > 0 THEN Call("propagateObserveCountUpward", <<k1, ins[i], 0 - k1.C[c].observeCount>>) ELSE k1, i + 1)
    IN each(k, 1)

\* ReactiveModuleProblemManagement.markComputationAsProblem
markComputationAsProblem(k, c, reason) ==
    LET k1 == [k EXCEPT !.computations = MapDelete(@, k.C[c].id)]
        k2 == [Call("detachRuntimeInputs", <<k1, c>>) EXCEPT !.C[c].runtimeInputs = <<>>]
        outs == k2.C[c].outputs
        RECURSIVE move(_, _)
        move(kk, i) ==
            IF i > Len(outs) THEN kk
            ELSE LET o == outs[i].v
                     k3 == [kk EXCEPT !.variables = MapDelete(@, outs[i].k), !.V[o].result = Fatal(reason.type), !.problem_variables = MapSet(@, outs[i].k, o)]
                 IN move(Call("notifyObserversGuarded", <<k3, o>>), i + 1)
        k4 == move(k2, 1)
        k5 == [k4 EXCEPT !.C[c].problemReason = reason, !.C[c].missingInputs = IF reason.type = "missing-input" THEN reason.missingInputs ELSE <<>>,
                         !.C[c].definition = [id |-> k4.C[c].id, inputs |-> k4.C[c].staticInputs, outputs |-> MapKeys(outs), body |-> k4.C[c].body],
                         !.problem_computations = MapSet(@, k4.C[c].id, c)]
        RECURSIVE rec(_, _)
        rec(kk, i) == IF i > Len(outs) THEN kk ELSE rec(Call("markDependents", <<kk, kk.V[outs[i].v].dependents, <<outs[i].k>>, TRUE>>), i + 1)
    IN rec(k5, 1)

\* ReactiveModuleDefinition._createProblemComputation
createProblemComputation(k, def, reason, missingInputs) ==
    LET c == NewCompId(k)
        RECURSIVE outs(_, _)
        outs(kk, i) ==
            IF i > Len(def.outputs) THEN kk
            ELSE IF getVariable(kk, def.outputs[i]) # NoObj THEN outs(kk, i + 1)
            ELSE LET v == NewVarId(kk)
                 IN outs([kk EXCEPT !.V = (v :> Variable(def.outputs[i], Fatal(reason.type), 0, 0, FALSE, c)) @@ @, !.problem_variables = MapSet(@, def.outputs[i], v), !.C[c].outputs = MapSet(@, def.outputs[i], v)], i + 1)
        comp == [Computation(def.id, def.inputs, <<>>, def.body, 0, 0, 0, 0, FALSE) EXCEPT !.problemReason = reason, !.missingInputs = missingInputs, !.definition = def]
        k1 == outs([k EXCEPT !.C = (c :> comp) @@ @], 1)
        k2 == [k1 EXCEPT !.problem_computations = MapSet(@, def.id, c)]
        RECURSIVE deps(_, _)
        deps(kk, i) ==
            IF i > Len(def.inputs) THEN kk
            ELSE LET v == getVariable(kk, def.inputs[i])
                 IN deps(IF v = NoObj THEN kk ELSE [kk EXCEPT !.V[v].dependents = SetAdd(@, c)], i + 1)
        k3 == deps(k2, 1)
        RECURSIVE waiters(_, _)
        waiters(kk, i) ==
            IF i > Len(def.outputs) THEN kk
            ELSE IF getVariable(kk, def.outputs[i]) # NoObj
            THEN waiters([kk EXCEPT !.outputWaiters = MapSet(@, def.outputs[i], SetAdd(IF MapHas(@, def.outputs[i]) THEN MapGet(@, def.outputs[i]) ELSE <<>>, def.id))], i + 1)
            ELSE waiters(kk, i + 1)
        k4 == IF reason.type = "duplicate-output" THEN waiters(k3, 1) ELSE k3
        created == k4.C[c].outputs
        RECURSIVE rec(_, _)
        rec(kk, i) == IF i > Len(created) THEN kk ELSE rec(Call("markDependents", <<kk, kk.V[created[i].v].dependents, <<created[i].k>>, FALSE>>), i + 1)
    IN rec(k4, 1)

\* ReactiveModuleRepairEngine.getMissingInputsList
getMissingInputsList(k, c) == SelectSeq(k.C[c].definition.inputs, LAMBDA id : ~MapHas(k.variables, id))

\* ReactiveModuleRepairEngine.hasOutputConflicts
hasOutputConflicts(k, c) == \E i \in 1..Len(k.C[c].definition.outputs) : MapHas(k.variables, k.C[c].definition.outputs[i])

\* ReactiveModuleRepairEngine.canRecover
canRecover(k, c) == Len(getMissingInputsList(k, c)) = 0 /\ ~hasOutputConflicts(k, c)

\* ReactiveModuleDefinition.createComputationObject
createComputationObject(k, def, outputsMap, initialDirtyInputCount, initialCauseAt) ==
    LET c == NewCompId(k)
        present == SelectSeq(def.inputs, LAMBDA id : MapHas(k.variables, id))
        comp == [Computation(def.id, def.inputs, outputsMap, def.body, initialCauseAt, initialDirtyInputCount, 0, 0, TRUE) EXCEPT !.scheduler = TRUE, !.runtimeInputs = [i \in 1..Len(present) |-> MapGet(k.variables, present[i])]]
    IN [k EXCEPT !.C = (c :> comp) @@ @, !.computations = MapSet(@, def.id, c)]

\* ReactiveModuleDefinition._linkOutputsToProducer
linkOutputsToProducer(k, outputsMap, c) == [k EXCEPT !.V = [v \in DOMAIN @ |-> IF v \in Range(MapValues(outputsMap)) THEN [@[v] EXCEPT !.producer = c] ELSE @[v]]]

\* ReactiveModuleDefinition.establishInputDependencies
establishInputDependencies(k, def, c) ==
    LET RECURSIVE each(_, _)
        each(kk, i) ==
            IF i > Len(def.inputs) THEN kk
            ELSE IF MapHas(kk.variables, def.inputs[i]) THEN each([kk EXCEPT !.V[MapGet(kk.variables, def.inputs[i])].dependents = SetAdd(@, c)], i + 1)
            ELSE each(kk, i + 1)
    IN each(k, 1)

\* recoverComputation that leaves the computation in the problem table
recoverComputationNever(k, p) == k

\* ReactiveModuleRepairEngine.recoverComputation
recoverComputation(k, p) ==
    LET def == k.C[p].definition
        initialCauseAt == computeInitialCauseAt(k, def)
        RECURSIVE outs(_, _, _)
        outs(kk, m, i) ==
            IF i > Len(def.outputs) THEN [k |-> kk, m |-> m]
            ELSE IF MapHas(kk.C[p].outputs, def.outputs[i])
            THEN LET v == MapGet(kk.C[p].outputs, def.outputs[i])
                 IN outs([kk EXCEPT !.problem_variables = MapDelete(@, def.outputs[i]), !.V[v].result = Uninitialized, !.V[v].value_at = 0, !.V[v].cause_at = initialCauseAt, !.V[v].dirty = TRUE, !.V[v].producer = NoObj, !.variables = MapSet(@, def.outputs[i], v)], MapSet(m, def.outputs[i], v), i + 1)
            ELSE LET v == NewVarId(kk)
                 IN outs([kk EXCEPT !.V = (v :> Variable(def.outputs[i], Uninitialized, 0, initialCauseAt, TRUE, NoObj)) @@ @, !.variables = MapSet(@, def.outputs[i], v)], MapSet(m, def.outputs[i], v), i + 1)
        r == outs(k, <<>>, 1)
        k1 == [r.k EXCEPT !.problem_computations = MapDelete(@, k.C[p].id)]
        c == NewCompId(k1)
        k2 == Call("createComputationObject", <<k1, def, r.m, countInitialDirtyInputs(k1, def), initialCauseAt>>)
        k3 == Call("establishInputDependencies", <<Call("linkOutputsToProducer", <<k2, r.m, c>>), def, c>>)
        RECURSIVE ups(_, _, _, _)
        ups(kk, ins, j, count) == IF j > Len(ins) THEN kk ELSE ups(Call("propagateObserveCountUpward", <<kk, ins[j], count>>), ins, j + 1, count)
        RECURSIVE restore(_, _)
        restore(kk, i) ==
            IF i > Len(r.m) THEN kk
            ELSE IF kk.V[r.m[i].v].observeCount > 0
            THEN LET n == kk.V[r.m[i].v].observeCount
                     k4 == Call("setObserveCount", <<kk, c, kk.C[c].observeCount + n>>)
                 IN restore(ups(k4, k4.C[c].runtimeInputs, 1, n), i + 1)
            ELSE restore(kk, i + 1)
        k5 == restore(k3, 1)
        RECURSIVE downstream(_, _)
        downstream(kk, i) == IF i > Len(def.outputs) THEN kk ELSE downstream(Call("tryRepairUndefinedInputs", <<kk, def.outputs[i]>>), i + 1)
    IN Call("tryRepairCircularDependencies", <<downstream(k5, 1)>>)

\* _tryRepairUndefinedInputs that never re-examines a problem computation
tryRepairUndefinedInputsNever(k, changedVarId) == k

\* ReactiveModuleRepairEngine._tryRepairUndefinedInputs
tryRepairUndefinedInputs(k, changedVarId) ==
    LET problems == MapValues(k.problem_computations)
        candidates == SelectSeq([i \in 1..Len(problems) |-> k.C[problems[i]].id], LAMBDA id : changedVarId \in Range(k.C[MapGet(k.problem_computations, id)].missingInputs))
        RECURSIVE each(_, _)
        each(kk, i) ==
            IF i > Len(candidates) THEN kk
            ELSE IF ~MapHas(kk.problem_computations, candidates[i]) THEN each(kk, i + 1)
            ELSE LET p == MapGet(kk.problem_computations, candidates[i])
                     k1 == [kk EXCEPT !.C[p].missingInputs = SetDelete(@, changedVarId)]
                     missingInputs == getMissingInputsList(k1, p)
                 IN IF Len(missingInputs) = 0 /\ ~hasOutputConflicts(k1, p) THEN each(Call("recoverComputation", <<k1, p>>), i + 1)
                    ELSE each(Call("updateProblemReason", <<IF Len(missingInputs) > 0 THEN [k1 EXCEPT !.C[p].missingInputs = missingInputs] ELSE k1, p>>), i + 1)
    IN each(k, 1)

\* the else branch of _tryRepairOutputConflicts: refresh conflictsWith
updateConflictSource(k, p) ==
    LET outs == k.C[p].definition.outputs
        RECURSIVE each(_, _)
        each(kk, i) ==
            IF i > Len(outs) THEN kk
            ELSE LET v == getVariable(kk, outs[i])
                 IN IF v # NoObj /\ kk.V[v].producer # NoObj /\ kk.C[kk.V[v].producer].id # kk.C[p].id
                    THEN each([kk EXCEPT !.C[p].problemReason.conflictsWith = kk.C[kk.V[v].producer].id], i + 1)
                    ELSE each(kk, i + 1)
    IN IF k.C[p].problemReason.type = "duplicate-output" THEN each(k, 1) ELSE k

\* ReactiveModuleRepairEngine._tryRepairOutputConflicts
tryRepairOutputConflicts(k, releasedOutputId) ==
    LET candidates == MapGet(k.outputWaiters, releasedOutputId)
        RECURSIVE each(_, _)
        each(kk, i) ==
            IF i > Len(candidates) THEN kk
            ELSE IF ~MapHas(kk.problem_computations, candidates[i])
            THEN each([kk EXCEPT !.outputWaiters = MapSet(@, releasedOutputId, SetDelete(MapGet(@, releasedOutputId), candidates[i]))], i + 1)
            ELSE LET p == MapGet(kk.problem_computations, candidates[i])
                 IN IF canRecover(kk, p) THEN each(Call("recoverComputation", <<kk, p>>), i + 1)
                    ELSE each(Call("updateConflictSource", <<kk, p>>), i + 1)
    IN IF ~MapHas(k.outputWaiters, releasedOutputId) THEN k ELSE each(k, 1)

\* the else branch of _tryRepairCircularDependencies: a circular reason whose
\* cycle is gone becomes missing-input; fatal results updated, observers notified
rewriteCircularReason(k, p) ==
    LET outs == MapValues(k.C[p].outputs)
        k1 == [k EXCEPT !.C[p].problemReason = MissingInputReason(getMissingInputsList(k, p))]
        RECURSIVE each(_, _)
        each(kk, i) ==
            IF i > Len(outs) THEN kk
            ELSE IF kk.V[outs[i]].result.type = "fatal" THEN each(Call("notifyObserversGuarded", <<[kk EXCEPT !.V[outs[i]].result = Fatal("missing-input")], outs[i]>>), i + 1)
            ELSE each(kk, i + 1)
    IN IF detectCircularDependencyIfAdded(k, k.C[p].definition) = <<>> /\ k.C[p].problemReason.type = "circular-dependency" THEN each(k1, 1) ELSE k

\* ReactiveModuleRepairEngine._tryRepairCircularDependencies
tryRepairCircularDependencies(k) ==
    LET candidates == MapKeys(k.problem_computations)
        RECURSIVE each(_, _)
        each(kk, i) ==
            IF i > Len(candidates) THEN kk
            ELSE IF ~MapHas(kk.problem_computations, candidates[i]) THEN each(kk, i + 1)
            ELSE LET p == MapGet(kk.problem_computations, candidates[i])
                 IN IF canRecover(kk, p) THEN each(Call("recoverComputation", <<kk, p>>), i + 1)
                    ELSE each(Call("rewriteCircularReason", <<kk, p>>), i + 1)
    IN each(k, 1)

\* repairs "for (const out of definition.outputs) _tryRepairUndefinedInputs(out)"
repairOutputs(k, outputs) ==
    LET RECURSIVE each(_, _)
        each(kk, i) == IF i > Len(outputs) THEN kk ELSE each(Call("tryRepairUndefinedInputs", <<kk, outputs[i]>>), i + 1)
    IN each(k, 1)

\* ------------------------------------------------------ lifecycle operations
\* ReactiveModuleBase.calculateConservativeDirtyInputCountLocal
calculateConservativeDirtyInputCount(k, c) == Len(SelectSeq(k.C[c].runtimeInputs, LAMBDA v : k.V[v].producer # NoObj /\ k.V[v].dirty))

\* ReactiveModuleBase._fullRedefineLogic
fullRedefineLogic(k, c, def) ==
    LET oldOutputs == MapKeys(k.C[c].outputs)
        RECURSIVE removed(_, _)
        removed(kk, i) ==
            IF i > Len(oldOutputs) THEN kk
            ELSE IF oldOutputs[i] \in Range(def.outputs) \/ ~MapHas(kk.variables, oldOutputs[i]) THEN removed(kk, i + 1)
            ELSE LET dependents == SelectSeq(kk.V[MapGet(kk.variables, oldOutputs[i])].dependents, LAMBDA d : kk.C[d].id # kk.C[c].id)
                     k1 == [kk EXCEPT !.variables = MapDelete(@, oldOutputs[i]), !.C[c].outputs = MapDelete(@, oldOutputs[i])]
                 IN removed(Call("markDependents", <<Call("tryRepairOutputConflicts", <<k1, oldOutputs[i]>>), dependents, <<oldOutputs[i]>>, FALSE>>), i + 1)
        RECURSIVE added(_, _)
        added(kk, i) ==
            IF i > Len(def.outputs) THEN kk
            ELSE IF def.outputs[i] \in Range(oldOutputs) \/ MapHas(kk.variables, def.outputs[i]) THEN added(kk, i + 1)
            ELSE LET v == NewVarId(kk)
                 IN added([kk EXCEPT !.V = (v :> Variable(def.outputs[i], Uninitialized, 0, kk.C[c].cause_at, TRUE, c)) @@ @, !.variables = MapSet(@, def.outputs[i], v), !.C[c].outputs = MapSet(@, def.outputs[i], v)], i + 1)
        RECURSIVE inputs(_, _)
        inputs(kk, i) ==
            IF i > Len(def.inputs) THEN kk
            ELSE IF ~MapHas(kk.variables, def.inputs[i]) THEN inputs(kk, i + 1)
            ELSE LET v == MapGet(kk.variables, def.inputs[i])
                     k1 == [kk EXCEPT !.C[c].runtimeInputs = SetAdd(@, v), !.V[v].dependents = SetAdd(@, c)]
                 IN inputs(IF k1.C[c].observeCount > 0 THEN Call("propagateObserveCountUpward", <<k1, v, k1.C[c].observeCount>>) ELSE k1, i + 1)
        RECURSIVE dirtyOutputs(_, _, _, _)
        dirtyOutputs(kk, outs, t, i) == IF i > Len(outs) THEN kk ELSE dirtyOutputs(Call("markDirty", <<[kk EXCEPT !.V[outs[i]].cause_at = t, !.V[outs[i]].dirty = TRUE], outs[i], t, TRUE>>), outs, t, i + 1)
        k5(k4, t) == Call("tryRepairCircularDependencies", <<dirtyOutputs(k4, MapValues(k4.C[c].outputs), t, 1)>>)
        k4(k3, t) == k5(Call("setDirty", <<[Call("setCauseAt", <<[k3 EXCEPT !.C[c].body = def.body], c, t>>) EXCEPT !.C[c].input_version = -1], c, TRUE>>), t)
        k3(k2) == k4(k2, k2.logicalClock)
        k2(k1) == k3(Call("nextLogicalClock", <<Call("setDirtyInputCount", <<k1, c, calculateConservativeDirtyInputCount(k1, c)>>)>>))
    IN k2(inputs([added(removed(k, 1), 1) EXCEPT !.C[c].staticInputs = def.inputs], 1))

\* ReactiveModuleBase._redefineComputation
redefineComputationInternal(k, def) ==
    LET c == MapGet(k.computations, def.id)
        k1 == Call("abortTask", <<k, c>>)
        k2 == [Call("detachRuntimeInputs", <<k1, c>>) EXCEPT !.C[c].runtimeInputs = <<>>]
    IN Call("fullRedefineLogic", <<k2, c, def>>)

\* ReactiveModuleBase.removeSource
removeSource(k, id) ==
    LET v == MapGet(k.variables, id)
    IN IF ~MapHas(k.variables, id) THEN k
       ELSE IF k.V[v].producer # NoObj THEN k
       ELSE LET k1 == [k EXCEPT !.variables = MapDelete(@, id)]
                k2 == Call("markDependents", <<k1, k.V[v].dependents, <<id>>, TRUE>>)
            IN Call("tryRepairCircularDependencies", <<Call("tryRepairOutputConflicts", <<k2, id>>)>>)

\* ReactiveModuleBase.removeComputation, the problem-computation branch
removeProblemComputation(k, id) ==
    LET p == MapGet(k.problem_computations, id)
        outs == MapKeys(k.C[p].outputs)
        RECURSIVE each(_, _)
        each(kk, i) == IF i > Len(outs) THEN kk ELSE each(Call("tryRepairOutputConflicts", <<[kk EXCEPT !.variables = MapDelete(@, outs[i]), !.problem_variables = MapDelete(@, outs[i])], outs[i]>>), i + 1)
    IN Call("tryRepairCircularDependencies", <<each([k EXCEPT !.problem_computations = MapDelete(@, id)], 1)>>)

\* ReactiveModuleBase.removeComputation
removeComputation(k, id) ==
    IF MapHas(k.problem_computations, id) THEN Call("removeProblemComputation", <<k, id>>)
    ELSE IF ~MapHas(k.computations, id) THEN k
    ELSE LET c == MapGet(k.computations, id)
             k1 == Call("abortTask", <<k, c>>)
             outputs == MapKeys(k1.C[c].outputs)
             RECURSIVE collect(_, _)
             collect(acc, i) ==
                 IF i > Len(outputs) THEN acc
                 ELSE IF ~MapHas(k1.variables, outputs[i]) THEN collect(acc, i + 1)
                 ELSE LET deps == k1.V[MapGet(k1.variables, outputs[i])].dependents
                          RECURSIVE addAll(_, _)
                          addAll(s, j) == IF j > Len(deps) THEN s ELSE addAll(SetAdd(s, deps[j]), j + 1)
                      IN collect(addAll(acc, 1), i + 1)
             affectedDependents == collect(<<>>, 1)
             RECURSIVE cleanup(_, _)
             cleanup(kk, i) == IF i > Len(outputs) THEN kk ELSE cleanup(Call("tryRepairOutputConflicts", <<[kk EXCEPT !.variables = MapDelete(@, outputs[i])], outputs[i]>>), i + 1)
             k2 == [Call("detachRuntimeInputs", <<cleanup(k1, 1), c>>) EXCEPT !.computations = MapDelete(@, id)]
             RECURSIVE marking(_, _)
             marking(kk, i) ==
                 IF i > Len(affectedDependents) THEN kk
                 ELSE LET dep == affectedDependents[i]
                          missing == SelectSeq([j \in 1..Len(kk.C[dep].runtimeInputs) |-> kk.V[kk.C[dep].runtimeInputs[j]].id], LAMBDA n : n \in Range(outputs))
                      IN marking(Call("markDependents", <<kk, <<dep>>, IF Len(missing) > 0 THEN missing ELSE outputs, TRUE>>), i + 1)
         IN Call("tryRepairCircularDependencies", <<marking(k2, 1)>>)

\* ReactiveModuleDefinition._defineComputation
defineComputationInternal(k, def, allowRedefinition) ==
    IF MapHas(k.computations, def.id) \/ MapHas(k.problem_computations, def.id)
    THEN IF allowRedefinition /\ MapHas(k.computations, def.id) THEN Call("redefineComputationInternal", <<k, def>>) ELSE k
    ELSE LET reason(missingInputs, problemInputs, conflictInfo, cyclePath) == IF cyclePath # <<>> THEN CircularReason(cyclePath) ELSE IF conflictInfo # "none" THEN DuplicateOutputReason(conflictInfo) ELSE MissingInputReason(missingInputs \o problemInputs)
             define(missingInputs, problemInputs, conflictInfo, cyclePath) ==
                 IF Len(missingInputs) > 0 \/ Len(problemInputs) > 0 \/ conflictInfo # "none" \/ cyclePath # <<>>
                 THEN Call("createProblemComputation", <<k, def, reason(missingInputs, problemInputs, conflictInfo, cyclePath), missingInputs \o problemInputs>>)
                 ELSE Call("defineHealthyComputation", <<k, def>>)
         IN define(getMissingInputs(k, def), getProblemInputs(k, def), getOutputConflictInfo(k, def, "none"), detectCircularDependencyIfAdded(k, def))

\* ReactiveModuleBase.replaceExistingComputation
replaceExistingComputation(k, def) ==
    LET existing == IF MapHas(k.computations, def.id) THEN MapGet(k.computations, def.id) ELSE MapGet(k.problem_computations, def.id)
        oldObservers == IF existing = NoObj THEN <<>> ELSE SelectSeq([i \in 1..Len(k.C[existing].outputs) |-> [k |-> k.C[existing].outputs[i].k, v |-> k.V[k.C[existing].outputs[i].v].observers]], LAMBDA e : Len(e.v) > 0)
        k1 == Call("defineComputationInternal", <<Call("removeComputation", <<k, def.id>>), def, TRUE>>)
        newComp == IF MapHas(k1.computations, def.id) THEN MapGet(k1.computations, def.id) ELSE MapGet(k1.problem_computations, def.id)
        RECURSIVE notifyEach(_, _, _, _)
        notifyEach(kk, v, obs, j) ==
            IF j > Len(obs) THEN kk
            ELSE IF obs[j].kind = "task" THEN notifyEach(Call("tempObserverCallback", <<kk, obs[j].id, kk.V[v].result>>), v, obs, j + 1)
            ELSE IF obs[j].kind = "get" THEN notifyEach(Call("getValueCallback", <<kk, obs[j].id, kk.V[v].result>>), v, obs, j + 1)
            ELSE notifyEach([kk EXCEPT !.delivered[obs[j].id] = Append(@, kk.V[v].result)], v, obs, j + 1)
        RECURSIVE addAll(_, _, _)
        addAll(s, obs, j) == IF j > Len(obs) THEN s ELSE addAll(SetAdd(s, obs[j]), obs, j + 1)
        RECURSIVE restore(_, _)
        restore(kk, i) ==
            IF i > Len(oldObservers) THEN kk
            ELSE IF ~MapHas(kk.C[newComp].outputs, oldObservers[i].k) THEN restore(kk, i + 1)
            ELSE LET v == MapGet(kk.C[newComp].outputs, oldObservers[i].k)
                     k2 == [kk EXCEPT !.V[v].observers = addAll(@, oldObservers[i].v, 1)]
                     k3 == Call("propagateObserveCountUpward", <<k2, v, Len(oldObservers[i].v)>>)
                 IN restore(notifyEach(k3, v, oldObservers[i].v, 1), i + 1)
    IN IF newComp = NoObj THEN k1 ELSE restore(k1, 1)

\* ReactiveModuleDefinition._defineSource (hasInitial: initialValue !== undefined)
defineSourceInternal(k, id, hasInitial, value) ==
    LET k1 == nextLogicalClock(k)
        v == NewVarId(k1)
        k2 == [k1 EXCEPT !.V = (v :> Variable(id, Uninitialized, 0, 0, FALSE, NoObj)) @@ @, !.variables = MapSet(@, id, v)]
    IN IF hasInitial THEN Call("updateSourceInternal", <<k2, id, value>>) ELSE k2

\* ReactiveModuleProblemManagement.defineSource (public)
defineSource(k, id, hasInitial, value, allowRedefinition) ==
    IF MapHas(k.variables, id)
    THEN IF ~allowRedefinition THEN k
         ELSE IF k.V[MapGet(k.variables, id)].producer # NoObj THEN k
         ELSE LET k1 == IF hasInitial THEN Call("updateSourceInternal", <<k, id, value>>) ELSE k
              IN IF k1.thrown THEN k1 ELSE Call("tryRepairUndefinedInputs", <<k1, id>>)
    ELSE Call("tryRepairUndefinedInputs", <<Call("defineSourceInternal", <<k, id, hasInitial, value>>), id>>)

\* ReactiveModuleProblemManagement.evaluateDefinitionProblems (is the list non-empty)
evaluateDefinitionProblems(k, def, allowExistingProducerId) ==
    LET undefinedInputs == SelectSeq(def.inputs, LAMBDA id : ~MapHas(k.variables, id))
        conflictInfo == getOutputConflictInfo(k, def, allowExistingProducerId)
    IN \/ Len(undefinedInputs) > 0
       \/ conflictInfo # "none"
       \/ (conflictInfo = "none" /\ detectCircularDependencyIfAdded(k, def) # <<>>)

\* defineNewComputation, "Phase 5: Mark Cycle": the other nodes of the cycle
markCycle(k, def, cycle) ==
    LET RECURSIVE refresh(_, _, _)
        refresh(kk, outs, j) ==
            IF j > Len(outs) THEN kk
            ELSE IF kk.V[outs[j]].result.type = "fatal"
            THEN refresh(Call("notifyObserversGuarded", <<[kk EXCEPT !.V[outs[j]].result = Fatal("circular-dependency")], outs[j]>>), outs, j + 1)
            ELSE refresh(kk, outs, j + 1)
        RECURSIVE each(_, _)
        each(kk, i) ==
            IF i > Len(cycle) THEN kk
            ELSE IF cycle[i] = def.id THEN each(kk, i + 1)
            ELSE IF MapHas(kk.computations, cycle[i]) THEN each(Call("markComputationAsProblem", <<kk, MapGet(kk.computations, cycle[i]), CircularReason(cycle)>>), i + 1)
            ELSE IF MapHas(kk.problem_computations, cycle[i])
            THEN LET p == MapGet(kk.problem_computations, cycle[i])
                 IN each(refresh([kk EXCEPT !.C[p].problemReason = CircularReason(cycle)], MapValues(kk.C[p].outputs), 1), i + 1)
            ELSE each(kk, i + 1)
    IN each(k, 1)

\* ReactiveModuleProblemManagement.defineNewComputation
defineNewComputation(k, def) ==
    LET k1 == Call("defineComputationInternal", <<k, def, FALSE>>)
    IN IF MapHas(k1.problem_computations, def.id)
       THEN LET p == MapGet(k1.problem_computations, def.id)
                reason == k1.C[p].problemReason
                k2 == Call("repairOutputs", <<k1, def.outputs>>)
            IN IF reason.type = "circular-dependency" THEN Call("markCycle", <<k2, def, reason.cyclePath>>) ELSE k2
       ELSE Call("repairOutputs", <<k1, def.outputs>>)

\* ReactiveModuleProblemManagement.redefineComputation
redefineComputation(k, def) ==
    IF evaluateDefinitionProblems(k, def, def.id) \/ MapHas(k.problem_computations, def.id)
    THEN Call("tryRepairCircularDependencies", <<Call("repairOutputs", <<Call("replaceExistingComputation", <<k, def>>), def.outputs>>)>>)
    ELSE Call("redefineComputationInternal", <<k, def>>)

\* ReactiveModuleProblemManagement.defineComputation (public)
defineComputation(k, def, allowRedefinition) ==
    IF MapHas(k.computations, def.id) \/ MapHas(k.problem_computations, def.id)
    THEN IF allowRedefinition THEN Call("redefineComputation", <<k, def>>) ELSE k
    ELSE Call("defineNewComputation", <<k, def>>)

\* ReactiveModulePropagation.updateSource (public): a throw changes nothing but the clock
updateSource(k, id, value) == Call("updateSourceInternal", <<k, id, value>>)

\* ------------------------------------------------------ the method table
Call(method, args) ==
    CASE method = "nextLogicalClock" -> nextLogicalClock(args[1]) []
         method = "addToReadyQueue" -> addToReadyQueue(args[1], args[2]) []
         method = "checkScheduleNeeded" -> checkScheduleNeeded(args[1], args[2], args[3]) []
         method = "unsubscribeTemp" -> unsubscribeTemp(args[1], args[2], args[3]) []
         method = "abortSignal" -> abortSignal(args[1], args[2]) []
         method = "abortTask" -> abortTask(args[1], args[2]) []
         method = "checkAbortNeeded" -> checkAbortNeeded(args[1], args[2], args[3], args[4]) []
         method = "onStateChange" -> onStateChange(args[1], args[2], args[3]) []
         method = "setDirty" -> setDirty(args[1], args[2], args[3]) []
         method = "setObserveCount" -> setObserveCount(args[1], args[2], args[3]) []
         method = "setDirtyInputCount" -> setDirtyInputCount(args[1], args[2], args[3]) []
         method = "checkAbortOnCauseAtChange" -> checkAbortOnCauseAtChange(args[1], args[2], args[3]) []
         method = "setCauseAt" -> setCauseAt(args[1], args[2], args[3]) []
         method = "propagateObserveCountUpward" -> propagateObserveCountUpward(args[1], args[2], args[3]) []
         method = "tryIncrementDirtyInputCount" -> tryIncrementDirtyInputCount(args[1], args[2], args[3], args[4]) []
         method = "updateCauseAt" -> updateCauseAt(args[1], args[2], args[3]) []
         method = "propagateToOutputs" -> propagateToOutputs(args[1], args[2], args[3]) []
         method = "propagateCauseAtDownward" -> propagateCauseAtDownward(args[1], args[2], args[3], args[4], args[5]) []
         method = "markDirty" -> markDirty(args[1], args[2], args[3], args[4]) []
         method = "tempObserverCallback" -> tempObserverCallback(args[1], args[2], args[3]) []
         method = "notifyObservers" -> notifyObservers(args[1], args[2]) []
         method = "decrementDirtyInputCount" -> decrementDirtyInputCount(args[1], args[2], args[3]) []
         method = "cleanVariable" -> cleanVariable(args[1], args[2]) []
         method = "updateSourceInternal" -> updateSourceInternal(args[1], args[2], args[3]) []
         method = "cleanOutputDirty" -> cleanOutputDirty(args[1], args[2]) []
         method = "observeInternal" -> observeInternal(args[1], args[2], args[3]) []
         method = "unsubscribe" -> unsubscribe(args[1], args[2]) []
         method = "getValueCallback" -> getValueCallback(args[1], args[2], args[3]) []
         method = "getValue" -> getValue(args[1], args[2], args[3]) []
         method = "maybeSkipExecution" -> maybeSkipExecution(args[1], args[2]) []
         method = "setupExecutionTask" -> setupExecutionTask(args[1], args[2], args[3]) []
         method = "executeComputation" -> executeComputation(args[1], args[2]) []
         method = "checkIdle" -> checkIdle(args[1]) []
         method = "waitIdle" -> waitIdle(args[1]) []
         method = "dispatchLoop" -> dispatchLoop(args[1]) []
         method = "drainFinally" -> drainFinally(args[1], args[2]) []
         method = "scheduleNext" -> scheduleNext(args[1]) []
         method = "updateOutputs" -> updateOutputs(args[1], args[2], args[3], args[4]) []
         method = "updateOutputsWithError" -> updateOutputsWithError(args[1], args[2], args[3], args[4]) []
         method = "cleanUnusedInputs" -> cleanUnusedInputs(args[1], args[2], args[3]) []
         method = "trackVariableAccess" -> trackVariableAccess(args[1], args[2], args[3], args[4]) []
         method = "handleExecutionFinally" -> handleExecutionFinally(args[1], args[2], args[3]) []
         method = "settleTask" -> settleTask(args[1], args[2]) []
         method = "handleExecutionSuccess" -> handleExecutionSuccess(args[1], args[2]) []
         method = "handleExecutionError" -> handleExecutionError(args[1], args[2], args[3]) []
         method = "afterEvaluate" -> afterEvaluate(args[1], args[2], args[3], args[4]) []
         method = "waitForVariableViaObserve" -> waitForVariableViaObserve(args[1], args[2], args[3]) []
         method = "scopeGetter" -> scopeGetter(args[1], args[2], args[3]) []
         method = "taskStep" -> taskStep(args[1], args[2]) []
         method = "establishDependencies" -> establishDependencies(args[1], args[2], args[3]) []
         method = "defineHealthyComputation" -> defineHealthyComputation(args[1], args[2]) []
         method = "notifyObserversGuarded" -> notifyObserversGuarded(args[1], args[2]) []
         method = "updateProblemReason" -> updateProblemReason(args[1], args[2]) []
         method = "mergeMissingInputs" -> mergeMissingInputs(args[1], args[2], args[3]) []
         method = "markDependents" -> markDependents(args[1], args[2], args[3], args[4]) []
         method = "detachRuntimeInputs" -> detachRuntimeInputs(args[1], args[2]) []
         method = "markComputationAsProblem" -> markComputationAsProblem(args[1], args[2], args[3]) []
         method = "createProblemComputation" -> createProblemComputation(args[1], args[2], args[3], args[4]) []
         method = "createComputationObject" -> createComputationObject(args[1], args[2], args[3], args[4], args[5]) []
         method = "linkOutputsToProducer" -> linkOutputsToProducer(args[1], args[2], args[3]) []
         method = "establishInputDependencies" -> establishInputDependencies(args[1], args[2], args[3]) []
         method = "recoverComputation" -> recoverComputation(args[1], args[2]) []
         method = "tryRepairUndefinedInputs" -> tryRepairUndefinedInputs(args[1], args[2]) []
         method = "updateConflictSource" -> updateConflictSource(args[1], args[2]) []
         method = "tryRepairOutputConflicts" -> tryRepairOutputConflicts(args[1], args[2]) []
         method = "rewriteCircularReason" -> rewriteCircularReason(args[1], args[2]) []
         method = "tryRepairCircularDependencies" -> tryRepairCircularDependencies(args[1]) []
         method = "repairOutputs" -> repairOutputs(args[1], args[2]) []
         method = "fullRedefineLogic" -> fullRedefineLogic(args[1], args[2], args[3]) []
         method = "redefineComputationInternal" -> redefineComputationInternal(args[1], args[2]) []
         method = "removeSource" -> removeSource(args[1], args[2]) []
         method = "removeProblemComputation" -> removeProblemComputation(args[1], args[2]) []
         method = "removeComputation" -> removeComputation(args[1], args[2]) []
         method = "defineComputationInternal" -> defineComputationInternal(args[1], args[2], args[3]) []
         method = "replaceExistingComputation" -> replaceExistingComputation(args[1], args[2]) []
         method = "defineSourceInternal" -> defineSourceInternal(args[1], args[2], args[3], args[4]) []
         method = "defineSource" -> defineSource(args[1], args[2], args[3], args[4], args[5]) []
         method = "markCycle" -> markCycle(args[1], args[2], args[3]) []
         method = "defineNewComputation" -> defineNewComputation(args[1], args[2]) []
         method = "redefineComputation" -> redefineComputation(args[1], args[2]) []
         method = "defineComputation" -> defineComputation(args[1], args[2], args[3]) []
         method = "updateSource" -> updateSource(args[1], args[2], args[3])

\* ------------------------------------------------------------ the state
\* ReactiveModuleCore / ReactiveModuleSchedule fields, the object heap (V, C),
\* the execution contexts of the bodies in flight (tasks, tempObserved), the
\* host's observers (handles, delivered), and history variables (bodyStarts,
\* lateWrite, opCount)
VARIABLES options, logicalClock, variables, computations, problem_variables, problem_computations, outputWaiters, readyQueue, runningTasksCount, scheduleScheduled, taskIdCounter, V, C, tasks, tempObserved, handles, delivered, idleWaiters, idleResolved, bodyStarts, lateWrite, throwing, thrown, escaped, transaction, opCount

vars == <<options, logicalClock, variables, computations, problem_variables, problem_computations, outputWaiters, readyQueue, runningTasksCount, scheduleScheduled, taskIdCounter, V, C, tasks, tempObserved, handles, delivered, idleWaiters, idleResolved, bodyStarts, lateWrite, throwing, thrown, escaped, transaction, opCount>>

\* the kernel in the current state, as the record the operators work on
Kernel == [options |-> options, logicalClock |-> logicalClock, variables |-> variables, computations |-> computations, problem_variables |-> problem_variables, problem_computations |-> problem_computations, outputWaiters |-> outputWaiters, readyQueue |-> readyQueue, runningTasksCount |-> runningTasksCount, scheduleScheduled |-> scheduleScheduled, taskIdCounter |-> taskIdCounter, V |-> V, C |-> C, tasks |-> tasks, tempObserved |-> tempObserved, handles |-> handles, delivered |-> delivered, idleWaiters |-> idleWaiters, idleResolved |-> idleResolved, bodyStarts |-> bodyStarts, lateWrite |-> lateWrite, throwing |-> throwing, thrown |-> thrown, escaped |-> escaped, transaction |-> transaction]

\* the next state holds the kernel k
Becomes(k) ==
    /\ options' = k.options
    /\ logicalClock' = k.logicalClock
    /\ variables' = k.variables
    /\ computations' = k.computations
    /\ problem_variables' = k.problem_variables
    /\ problem_computations' = k.problem_computations
    /\ outputWaiters' = k.outputWaiters
    /\ readyQueue' = k.readyQueue
    /\ runningTasksCount' = k.runningTasksCount
    /\ scheduleScheduled' = k.scheduleScheduled
    /\ taskIdCounter' = k.taskIdCounter
    /\ V' = k.V
    /\ C' = k.C
    /\ tasks' = k.tasks
    /\ tempObserved' = k.tempObserved
    /\ handles' = k.handles
    /\ delivered' = k.delivered
    /\ idleWaiters' = k.idleWaiters
    /\ idleResolved' = k.idleResolved
    /\ bodyStarts' = k.bodyStarts
    /\ lateWrite' = k.lateWrite
    /\ throwing' = k.throwing
    /\ thrown' = k.thrown
    /\ escaped' = k.escaped
    /\ transaction' = k.transaction

\* the current state holds the kernel k
Holds(k) ==
    /\ options = k.options
    /\ logicalClock = k.logicalClock
    /\ variables = k.variables
    /\ computations = k.computations
    /\ problem_variables = k.problem_variables
    /\ problem_computations = k.problem_computations
    /\ outputWaiters = k.outputWaiters
    /\ readyQueue = k.readyQueue
    /\ runningTasksCount = k.runningTasksCount
    /\ scheduleScheduled = k.scheduleScheduled
    /\ taskIdCounter = k.taskIdCounter
    /\ V = k.V
    /\ C = k.C
    /\ tasks = k.tasks
    /\ tempObserved = k.tempObserved
    /\ handles = k.handles
    /\ delivered = k.delivered
    /\ idleWaiters = k.idleWaiters
    /\ idleResolved = k.idleResolved
    /\ bodyStarts = k.bodyStarts
    /\ lateWrite = k.lateWrite
    /\ throwing = k.throwing
    /\ thrown = k.thrown
    /\ escaped = k.escaped
    /\ transaction = k.transaction

\* ------------------------------------------------- the host's vocabulary
\* observers the host may register
NumObservers == 2
\* source values the host uses
Values == {1, 2}
SourceIds == {"x"}
ObservedIds == {"y", "z"}
ComputationIds == {"B", "C"}
\* computation definitions the host uses: B produces y from x, C produces z
Definitions == {
    [id |-> "B", inputs |-> <<"x">>, outputs |-> <<"y">>, body |-> [kind |-> "sum", reads |-> <<"x">>]],
    [id |-> "B", inputs |-> <<"x">>, outputs |-> <<"y">>, body |-> [kind |-> "throw", reads |-> <<"x">>]],
    [id |-> "C", inputs |-> <<"y">>, outputs |-> <<"z">>, body |-> [kind |-> "sum", reads |-> <<"y">>]],
    [id |-> "C", inputs |-> <<"x", "y">>, outputs |-> <<"z">>, body |-> [kind |-> "cond", reads |-> <<"x", "y">>]] }

\* no callback of withTransaction has run: open while a callback has begun
\* and not finished, awaited once it has yielded to the event loop, changed
\* once one of its updateSource calls has given a source another value,
\* turns the turns of the event loop callbacks have run in, starts the
\* bodyStarts when the callback began
NoTransaction == [open |-> FALSE, awaited |-> FALSE, changed |-> FALSE, turns |-> 0, starts |-> <<>>]

\* new ReactiveModule(): the state after construction
EmptyKernel == [options |-> [maxConcurrent |-> maxConcurrent, abortStrategy |-> "deferred"], logicalClock |-> 0, variables |-> <<>>, computations |-> <<>>, problem_variables |-> <<>>, problem_computations |-> <<>>, outputWaiters |-> <<>>, readyQueue |-> <<>>, runningTasksCount |-> 0, scheduleScheduled |-> FALSE, taskIdCounter |-> 0, V |-> <<>>, C |-> <<>>, tasks |-> <<>>, tempObserved |-> <<>>, handles |-> [h \in 1..NumObservers |-> [var |-> NoObj, active |-> FALSE]], delivered |-> [h \in 1..NumObservers |-> <<>>], idleWaiters |-> 0, idleResolved |-> 0, bodyStarts |-> <<>>, lateWrite |-> FALSE, throwing |-> {}, thrown |-> FALSE, escaped |-> FALSE, transaction |-> NoTransaction]

Init == Holds(EmptyKernel) /\ opCount = 0

\* a promise continuation (microtask) is pending: no timer or host call runs before it
MicrotaskPending(k) == \E t \in DOMAIN k.tasks : k.tasks[t].pc \in {"resume", "rejected"}

\* the updateSource calls a callback of withTransaction makes in one turn,
\* each to another source
MaxTransactionCalls == 2
TransactionCalls(ids) == {calls \in UNION {[1..n -> ids \X Values] : n \in 1..MaxTransactionCalls} : \A i, j \in DOMAIN calls : i < j => calls[i][1] # calls[j][1]}

\* a host call is possible: the budget of host operations is not used up
HostTurn(budget) == opCount < budget /\ ~MicrotaskPending(Kernel)

\* the public method returns to the host, or an exception reaches the host
toCaller(k) == [k EXCEPT !.escaped = @ \/ k.thrown, !.thrown = FALSE]

\* the host call changes the kernel to k (calls that change nothing are left out)
HostCall(k) == k # Kernel /\ Becomes(toCaller(k)) /\ opCount' = opCount + 1

\* -------------------------------------------------------- the host's calls
\* defineSource({id, initialValue}, {allowRedefinition})
HostDefineSource(ids, budget) == HostTurn(budget) /\ \E id \in ids, value \in Values, allow \in BOOLEAN : HostCall(Call("defineSource", <<Kernel, id, TRUE, value, allow>>))

\* updateSource(id, value)
HostUpdateSource(ids, budget) == HostTurn(budget) /\ \E id \in ids, value \in Values : MapHas(variables, id) /\ HostCall(Call("updateSource", <<Kernel, id, value>>))

\* defineComputation(definition, {allowRedefinition})
HostDefineComputation(defs, budget) == HostTurn(budget) /\ \E def \in defs, allow \in BOOLEAN : HostCall(Call("defineComputation", <<Kernel, def, allow>>))

\* removeSource(id)
HostRemoveSource(ids, budget) == HostTurn(budget) /\ \E id \in ids : HostCall(Call("removeSource", <<Kernel, id>>))

\* removeComputation(id)
HostRemoveComputation(ids, budget) == HostTurn(budget) /\ \E id \in ids : HostCall(Call("removeComputation", <<Kernel, id>>))

\* observe(id, callback) with the next unused callback
HostObserve(ids, budget) == HostTurn(budget) /\ \E id \in ids, h \in 1..NumObservers : handles[h].var = NoObj /\ (\A g \in 1..(h - 1) : handles[g].var # NoObj) /\ HostCall(Call("observeInternal", <<Kernel, id, h>>))

\* the Unsubscribe function that observe returned
HostUnsubscribe(budget) == HostTurn(budget) /\ \E h \in 1..NumObservers : handles[h].active /\ HostCall(Call("unsubscribe", <<Kernel, h>>))

\* getValue(id) / getValueResult(id)
HostGetValue(ids, budget) == HostTurn(budget) /\ \E id \in ids, h \in 1..NumObservers : handles[h].var = NoObj /\ (\A g \in 1..(h - 1) : handles[g].var # NoObj) /\ HostCall(Call("getValue", <<Kernel, id, h>>))

\* waitIdle()
HostWaitIdle(budget) == HostTurn(budget) /\ HostCall(Call("waitIdle", <<Kernel>>))

\* ---------------------------------------------------------------- actions
DefineSource == HostDefineSource(SourceIds, MaxOps)

UpdateSource == HostUpdateSource(SourceIds, MaxOps)

DefineComputation == HostDefineComputation(Definitions, MaxOps)

RemoveSource == HostRemoveSource(SourceIds, MaxOps)

RemoveComputation == HostRemoveComputation(ComputationIds, MaxOps)

Observe == HostObserve(ObservedIds, MaxOps)

Unsubscribe == HostUnsubscribe(MaxOps)

\* the setTimeout(0) callback that addToReadyQueue armed
Tick == scheduleScheduled /\ ~MicrotaskPending(Kernel) /\ Becomes(Call("scheduleNext", <<[Kernel EXCEPT !.scheduleScheduled = FALSE]>>)) /\ UNCHANGED opCount

\* a body in flight runs to its next await, or returns / throws and its execution ends
TaskStep == \E t \in DOMAIN tasks : tasks[t].pc # "wait" /\ Becomes(Call("taskStep", <<Kernel, t>>)) /\ UNCHANGED opCount

Next == DefineSource \/ UpdateSource \/ DefineComputation \/ RemoveSource \/ RemoveComputation \/ Observe \/ Unsubscribe \/ Tick \/ TaskStep

Spec == Init /\ [][Next]_vars

\* the callback fn of withTransaction runs one turn: it makes the calls
\* updateSource(id, value) of the sequence calls, one after the other
RECURSIVE fn(_, _, _)
fn(k, calls, i) == IF i > Len(calls) \/ k.thrown THEN k ELSE fn(Call("updateSource", <<k, calls[i][1], calls[i][2]>>), calls, i + 1)

\* withTransaction(fn): await fn(). The callback runs the turn of calls and
\* then has finished, or awaits something and goes on in a later turn
withTransaction(k, calls, finished) ==
    LET begun == IF k.transaction.open THEN k.transaction ELSE [NoTransaction EXCEPT !.turns = k.transaction.turns, !.starts = k.bodyStarts]
        k1 == fn(k, calls, 1)
        changed == \E v \in DOMAIN k.V : k1.V[v].value_at # k.V[v].value_at
    IN [k1 EXCEPT !.transaction = [open |-> ~finished, awaited |-> begun.awaited \/ ~finished, changed |-> begun.changed \/ changed, turns |-> begun.turns + 1, starts |-> begun.starts]]

\* await withTransaction(() => { updateSource(...); ... }): one turn of the callback
HostWithTransaction(ids, budget) == HostTurn(budget) /\ \E calls \in TransactionCalls(ids), finished \in BOOLEAN : HostCall(withTransaction(Kernel, calls, finished))

\* ------------------------------------------------------------- scenarios
\* await waitIdle(): the event loop runs timers, continuations and bodies
\* until nothing is scheduled and no body can take a step
RECURSIVE Settle(_)
Settle(k) ==
    IF MicrotaskPending(k) THEN Settle(Call("taskStep", <<k, CHOOSE t \in DOMAIN k.tasks : k.tasks[t].pc \in {"resume", "rejected"}>>))
    ELSE IF k.scheduleScheduled THEN Settle(Call("scheduleNext", <<[k EXCEPT !.scheduleScheduled = FALSE]>>))
    ELSE IF \E t \in DOMAIN k.tasks : k.tasks[t].pc # "wait" THEN Settle(Call("taskStep", <<k, CHOOSE t \in DOMAIN k.tasks : k.tasks[t].pc # "wait">>))
    ELSE k

\* the history variables start anew after a fixture
FreshHistory(k) == [k EXCEPT !.bodyStarts = <<>>, !.delivered = [h \in 1..NumObservers |-> <<>>], !.lateWrite = FALSE]

\* the initial value of the sources of the fixtures
InitialValue == 1

\* the diamond a -> b, a -> c, (b, c) -> d: a = InitialValue, d observed, the
\* kernel quiescent; the bodies of b and c are of the kinds bk and ck
DiamondKinds == {"sum", "const"}
DiamondB(bk) == [id |-> "B", inputs |-> <<"a">>, outputs |-> <<"b">>, body |-> [kind |-> bk, reads |-> <<"a">>]]
DiamondC(ck) == [id |-> "C", inputs |-> <<"a">>, outputs |-> <<"c">>, body |-> [kind |-> ck, reads |-> <<"a">>]]
DiamondD == [id |-> "D", inputs |-> <<"b", "c">>, outputs |-> <<"d">>, body |-> [kind |-> "sum", reads |-> <<"b", "c">>]]
DiamondFixture(bk, ck) == FreshHistory(Settle(Call("observeInternal", <<Call("defineComputation", <<Call("defineComputation", <<Call("defineComputation", <<Call("defineSource", <<EmptyKernel, "a", TRUE, InitialValue, FALSE>>), DiamondB(bk), FALSE>>), DiamondC(ck), FALSE>>), DiamondD, FALSE>>), "d", 1>>)))

DiamondInit == \E bk \in DiamondKinds, ck \in DiamondKinds : Holds(DiamondFixture(bk, ck)) /\ opCount = 0

DiamondUpdateSource == HostUpdateSource({"a"}, MaxDiamondOps)

DiamondNext == DiamondUpdateSource \/ Tick \/ TaskStep

SpecDiamond == DiamondInit /\ [][DiamondNext]_vars

\* a dynamic dependency: C reads x and, only if x is CondValue, y, which B
\* produces from w; x = InitialValue, z observed, the kernel quiescent
DynamicB == [id |-> "B", inputs |-> <<"w">>, outputs |-> <<"y">>, body |-> [kind |-> "sum", reads |-> <<"w">>]]
DynamicC == [id |-> "C", inputs |-> <<"x", "y">>, outputs |-> <<"z">>, body |-> [kind |-> "cond", reads |-> <<"x", "y">>]]
DynamicFixture == FreshHistory(Settle(Call("observeInternal", <<Call("defineComputation", <<Call("defineComputation", <<Call("defineSource", <<Call("defineSource", <<EmptyKernel, "x", TRUE, InitialValue, FALSE>>), "w", TRUE, InitialValue, FALSE>>), DynamicB, FALSE>>), DynamicC, FALSE>>), "z", 1>>)))

DynamicInit == Holds(DynamicFixture) /\ opCount = 0

DynamicUpdateSource == HostUpdateSource({"x", "w"}, MaxDynamicOps)

DynamicRemoveSource == HostRemoveSource({"w"}, MaxDynamicOps)

DynamicDefineSource == HostDefineSource({"w"}, MaxDynamicOps)

DynamicNext == DynamicUpdateSource \/ DynamicRemoveSource \/ DynamicDefineSource \/ Tick \/ TaskStep

SpecDynamic == DynamicInit /\ [][DynamicNext]_vars

\* first-win ownership of the output name y: the owner is defined first (the
\* computation P, or y as a source), then Q, then R, each declaring y; the
\* inputs are the sources x and w, and w may be undefined at that time
MaxFirstWinOps == 3
FirstWinInputs == {"x", "w"}
FirstWinDef(id, in) == [id |-> id, inputs |-> <<in>>, outputs |-> <<"y">>, body |-> [kind |-> "sum", reads |-> <<in>>]]
FirstWinSources(wDefined) == IF wDefined THEN Call("defineSource", <<Call("defineSource", <<EmptyKernel, "x", TRUE, InitialValue, FALSE>>), "w", TRUE, InitialValue, FALSE>>) ELSE Call("defineSource", <<EmptyKernel, "x", TRUE, InitialValue, FALSE>>)
FirstWinOwner(k, ownerIsSource) == IF ownerIsSource THEN Call("defineSource", <<k, "y", TRUE, InitialValue, FALSE>>) ELSE Call("defineComputation", <<k, FirstWinDef("P", "x"), FALSE>>)
FirstWinFixture(wDefined, ownerIsSource, qin, rin) == FreshHistory(Call("defineComputation", <<Call("defineComputation", <<FirstWinOwner(FirstWinSources(wDefined), ownerIsSource), FirstWinDef("Q", qin), FALSE>>), FirstWinDef("R", rin), FALSE>>))

FirstWinInit == \E wDefined \in BOOLEAN, ownerIsSource \in BOOLEAN, qin \in FirstWinInputs, rin \in FirstWinInputs : Holds(FirstWinFixture(wDefined, ownerIsSource, qin, rin)) /\ opCount = 0

FirstWinDefineSource == HostDefineSource(FirstWinInputs, MaxFirstWinOps)

FirstWinRemoveSource == HostRemoveSource({"x", "w", "y"}, MaxFirstWinOps)

FirstWinRemoveComputation == HostRemoveComputation({"P", "Q", "R"}, MaxFirstWinOps)

FirstWinNext == FirstWinDefineSource \/ FirstWinRemoveSource \/ FirstWinRemoveComputation

SpecFirstWin == FirstWinInit /\ [][FirstWinNext]_vars

\* recovery from missing inputs: B produces y from inputs that are not yet
\* defined and C produces z from y, so both are problem computations; an
\* observer is attached to y or to z; the host then defines (and updates)
\* the sources
MaxRecoveryOps == 2
RecoveryInputs == {<<"x">>, <<"x", "w">>}
RecoveryB(bin) == [id |-> "B", inputs |-> bin, outputs |-> <<"y">>, body |-> [kind |-> "sum", reads |-> bin]]
RecoveryC == [id |-> "C", inputs |-> <<"y">>, outputs |-> <<"z">>, body |-> [kind |-> "sum", reads |-> <<"y">>]]
RecoveryDefinitions(bin, bFirst) == IF bFirst THEN Call("defineComputation", <<Call("defineComputation", <<EmptyKernel, RecoveryB(bin), FALSE>>), RecoveryC, FALSE>>) ELSE Call("defineComputation", <<Call("defineComputation", <<EmptyKernel, RecoveryC, FALSE>>), RecoveryB(bin), FALSE>>)
RecoveryFixture(bin, bFirst, target) == FreshHistory(Call("observeInternal", <<RecoveryDefinitions(bin, bFirst), target, 1>>))

RecoveryInit == \E bin \in RecoveryInputs, bFirst \in BOOLEAN, target \in ObservedIds : Holds(RecoveryFixture(bin, bFirst, target)) /\ opCount = 0

RecoveryDefineSource == HostDefineSource({"x", "w"}, MaxRecoveryOps)

RecoveryNext == RecoveryDefineSource \/ Tick \/ TaskStep

SpecRecovery == RecoveryInit /\ [][RecoveryNext]_vars

\* the event loop runs every timer callback and every continuation that is
\* due: weak fairness of Tick and of TaskStep. Each is written out by its
\* definition, []<>(~ENABLED <<A>>_vars) \/ []<><<A>>_vars, with the guard of
\* the action for ENABLED <<A>>_vars (a Tick always clears scheduleScheduled
\* or starts a task, a TaskStep always moves its task, so neither stutters)
TickEnabled == scheduleScheduled /\ ~MicrotaskPending(Kernel)
TaskStepEnabled == \E t \in DOMAIN tasks : tasks[t].pc # "wait"
TickFair == []<>(~TickEnabled) \/ []<><<Tick>>_vars
TaskStepFair == []<>(~TaskStepEnabled) \/ []<><<TaskStep>>_vars
SpecRecoveryLive == SpecRecovery /\ TickFair /\ TaskStepFair

\* a dependency cycle and its repair by redefinition: A (vC -> vA),
\* B (vA -> vB) and C (vB -> vC) are defined in this order or a rotation of
\* it, X is a source and vB is observed; the host then redefines members,
\* each either with its input of the ring or with the input X
MaxCycleOps == 2
CycleIds == {"A", "B", "C"}
CycleOutput(id) == CASE id = "A" -> "vA" [] id = "B" -> "vB" [] OTHER -> "vC"
CycleInput(id) == CASE id = "A" -> "vC" [] id = "B" -> "vA" [] OTHER -> "vB"
CycleDef(id, in) == [id |-> id, inputs |-> <<in>>, outputs |-> <<CycleOutput(id)>>, body |-> [kind |-> "sum", reads |-> <<in>>]]
CycleDefinitions == {CycleDef(id, CycleInput(id)) : id \in CycleIds} \cup {CycleDef(id, "X") : id \in CycleIds}
CycleOrders == {<<"A", "B", "C">>, <<"B", "C", "A">>, <<"C", "A", "B">>}
CycleFixture(order, observed) == FreshHistory(Settle(Call("observeInternal", <<Call("defineSource", <<Call("defineComputation", <<Call("defineComputation", <<Call("defineComputation", <<EmptyKernel, CycleDef(order[1], CycleInput(order[1])), FALSE>>), CycleDef(order[2], CycleInput(order[2])), FALSE>>), CycleDef(order[3], CycleInput(order[3])), FALSE>>), "X", TRUE, InitialValue, FALSE>>), observed, 1>>)))

CycleInit == \E order \in CycleOrders, observed \in {"vA", "vB", "vC"} : Holds(CycleFixture(order, observed)) /\ opCount = 0

CycleDefineComputation == HostDefineComputation(CycleDefinitions, MaxCycleOps)

CycleNext == CycleDefineComputation \/ Tick \/ TaskStep

SpecCycle == CycleInit /\ [][CycleNext]_vars

\* bounded concurrency: the diamond on a module constructed with
\* options.maxConcurrent 1 or 2, d observed, the kernel quiescent; every
\* update of a makes B and C ready at once and cancels the bodies in flight
MaxConcurrencyOps == 2
ConcurrencyLimits == {1, 2}
ConcurrencyFixture(limit) == FreshHistory(Settle(Call("observeInternal", <<Call("defineComputation", <<Call("defineComputation", <<Call("defineComputation", <<Call("defineSource", <<[EmptyKernel EXCEPT !.options.maxConcurrent = limit], "a", TRUE, InitialValue, FALSE>>), DiamondB("sum"), FALSE>>), DiamondC("sum"), FALSE>>), DiamondD, FALSE>>), "d", 1>>)))

ConcurrencyInit == \E limit \in ConcurrencyLimits : Holds(ConcurrencyFixture(limit)) /\ opCount = 0

ConcurrencyUpdateSource == HostUpdateSource({"a"}, MaxConcurrencyOps)

ConcurrencyNext == ConcurrencyUpdateSource \/ Tick \/ TaskStep

SpecConcurrency == ConcurrencyInit /\ [][ConcurrencyNext]_vars

\* waiting for idle: the diamond (DiamondInit: d observed, quiescent); the
\* host updates a, unsubscribes and calls waitIdle
MaxIdleOps == 2
IdleUpdateSource == HostUpdateSource({"a"}, MaxIdleOps)
IdleUnsubscribe == HostUnsubscribe(MaxIdleOps)
IdleWaitIdle == HostWaitIdle(MaxIdleOps)

IdleNext == IdleUpdateSource \/ IdleUnsubscribe \/ IdleWaitIdle \/ Tick \/ TaskStep

SpecIdle == DiamondInit /\ [][IdleNext]_vars

\* a throwing observer: the source x and B: x -> y; the callback of handle 1
\* throws whenever it is called and observes x or y; the host registers the
\* second callback (which returns normally) and updates x
MaxThrowsOps == 3
ThrowsB == [id |-> "B", inputs |-> <<"x">>, outputs |-> <<"y">>, body |-> [kind |-> "sum", reads |-> <<"x">>]]
ThrowsFixture(target) == FreshHistory(Call("observeInternal", <<Call("defineComputation", <<Call("defineSource", <<[EmptyKernel EXCEPT !.throwing = {1}], "x", TRUE, InitialValue, FALSE>>), ThrowsB, FALSE>>), target, 1>>))
ThrowsInit == \E target \in {"x", "y"} : Holds(ThrowsFixture(target)) /\ opCount = 0
ThrowsObserve == HostObserve({"x", "y"}, MaxThrowsOps)
ThrowsUpdateSource == HostUpdateSource({"x"}, MaxThrowsOps)

ThrowsNext == ThrowsObserve \/ ThrowsUpdateSource \/ Tick \/ TaskStep

SpecThrows == ThrowsInit /\ [][ThrowsNext]_vars

\* a ring closed after an update: in one turn of the host C: Y -> vC,
\* A: vC -> vA, B: vA -> vB are defined, one output is observed, Y is updated
\* and C is redefined to read vB, which quarantines the three; X is a source
\* that was never updated; the host then redefines members, each with its
\* input of the ring or with X
MaxRequarantineOps == 2
RequarantineValue == 2
RequarantineFixture(observed) == FreshHistory(Call("defineComputation", <<Call("updateSource", <<Call("observeInternal", <<Call("defineComputation", <<Call("defineComputation", <<Call("defineComputation", <<Call("defineSource", <<Call("defineSource", <<EmptyKernel, "X", TRUE, InitialValue, FALSE>>), "Y", TRUE, InitialValue, FALSE>>), CycleDef("C", "Y"), FALSE>>), CycleDef("A", "vC"), FALSE>>), CycleDef("B", "vA"), FALSE>>), observed, 1>>), "Y", RequarantineValue>>), CycleDef("C", "vB"), TRUE>>))
RequarantineInit == \E observed \in {"vA", "vB", "vC"} : Holds(RequarantineFixture(observed)) /\ opCount = 0
RequarantineDefineComputation == HostDefineComputation(CycleDefinitions, MaxRequarantineOps)

RequarantineNext == RequarantineDefineComputation \/ Tick \/ TaskStep

SpecRequarantine == RequarantineInit /\ [][RequarantineNext]_vars

\* redefinition: the source x, B producing y from x, or from the undefined w
\* (B is then quarantined), y observed, the kernel quiescent; the host
\* redefines B with allowRedefinition as a computation that reads x
MaxRedefineOps == 2
RedefineKinds == {"sum", "const", "throw"}
RedefineB(kind, in) == [id |-> "B", inputs |-> <<in>>, outputs |-> <<"y">>, body |-> [kind |-> kind, reads |-> <<in>>]]
RedefineDefinitions == {RedefineB(kind, "x") : kind \in RedefineKinds}
RedefineFixture(in) == FreshHistory(Settle(Call("observeInternal", <<Call("defineComputation", <<Call("defineSource", <<EmptyKernel, "x", TRUE, InitialValue, FALSE>>), RedefineB("sum", in), FALSE>>), "y", 1>>)))
RedefineInit == \E in \in {"x", "w"} : Holds(RedefineFixture(in)) /\ opCount = 0
RedefineDefineComputation == HostTurn(MaxRedefineOps) /\ \E def \in RedefineDefinitions : HostCall(Call("defineComputation", <<Kernel, def, TRUE>>))

RedefineNext == RedefineDefineComputation \/ Tick \/ TaskStep

SpecRedefine == RedefineInit /\ [][RedefineNext]_vars

\* the transaction test: sum_comp adds the sources a and b, sum is observed,
\* the kernel quiescent; the host calls withTransaction
MaxTransactionOps == 2
sum_comp == [id |-> "sum_comp", inputs |-> <<"a", "b">>, outputs |-> <<"sum">>, body |-> [kind |-> "sum", reads |-> <<"a", "b">>]]
TransactionFixture(a) == FreshHistory(Settle(Call("observeInternal", <<Call("defineComputation", <<Call("defineSource", <<Call("defineSource", <<EmptyKernel, "a", TRUE, a, FALSE>>), "b", TRUE, InitialValue, FALSE>>), sum_comp, FALSE>>), "sum", 1>>)))

TransactionInit == Holds(TransactionFixture(InitialValue)) /\ opCount = 0

TransactionWithTransaction == HostWithTransaction({"a", "b"}, MaxTransactionOps)

TransactionNext == TransactionWithTransaction \/ Tick \/ TaskStep

SpecTransaction == TransactionInit /\ [][TransactionNext]_vars

\* ------------------------------------------- scenario: structural operations
\* the host defines, redefines and removes the computations A, B and D and
\* the source X; nothing is observed, so no body runs. A definition reads X,
\* vA, vB or both vB and vD, and writes the output of its id or vA
MaxStructureOps == 3
StructureIds == {"A", "B", "D"}
StructureOutput(id) == CASE id = "A" -> "vA" [] id = "B" -> "vB" [] OTHER -> "vD"
StructureInputs == {<<"X">>, <<"vA">>, <<"vB">>, <<"vB", "vD">>}
StructureDef(id, in, out) == [id |-> id, inputs |-> in, outputs |-> <<out>>, body |-> [kind |-> "sum", reads |-> in]]
StructureDefinitions == UNION {{StructureDef(id, in, "vA"), StructureDef(id, in, StructureOutput(id))} : id \in StructureIds, in \in StructureInputs}
StructureFixture(value) == FreshHistory(Call("defineSource", <<EmptyKernel, "X", TRUE, value, FALSE>>))

StructureInit == \E value \in {InitialValue} : Holds(StructureFixture(value)) /\ opCount = 0

StructureDefineComputation == HostDefineComputation(StructureDefinitions, MaxStructureOps)

StructureRemoveComputation == HostRemoveComputation(StructureIds, MaxStructureOps)

StructureDefineSource == HostDefineSource({"X"}, MaxStructureOps)

StructureRemoveSource == HostRemoveSource({"X"}, MaxStructureOps)

StructureNext == StructureDefineComputation \/ StructureRemoveComputation \/ StructureDefineSource \/ StructureRemoveSource

SpecStructure == StructureInit /\ [][StructureNext]_vars

\* ------------------------------------------- scenario: a chain under change
\* x is a source, B produces y from x and C produces z from y; nothing has
\* run. The host then observes and unsubscribes, removes and defines sources
\* and computations, and redefines them
MaxChainOps == 3
ChainB == [id |-> "B", inputs |-> <<"x">>, outputs |-> <<"y">>, body |-> [kind |-> "sum", reads |-> <<"x">>]]
ChainC == [id |-> "C", inputs |-> <<"y">>, outputs |-> <<"z">>, body |-> [kind |-> "sum", reads |-> <<"y">>]]
ChainFixture(value) == FreshHistory(Call("defineComputation", <<Call("defineComputation", <<Call("defineSource", <<EmptyKernel, "x", TRUE, value, FALSE>>), ChainB, FALSE>>), ChainC, FALSE>>))

ChainInit == \E value \in {InitialValue} : Holds(ChainFixture(value)) /\ opCount = 0

ChainDefineSource == HostDefineSource(SourceIds, MaxChainOps)

ChainUpdateSource == HostUpdateSource(SourceIds, MaxChainOps)

ChainDefineComputation == HostDefineComputation(Definitions, MaxChainOps)

ChainRemoveSource == HostRemoveSource(SourceIds, MaxChainOps)

ChainRemoveComputation == HostRemoveComputation(ComputationIds, MaxChainOps)

ChainObserve == HostObserve(ObservedIds, MaxChainOps)

ChainUnsubscribe == HostUnsubscribe(MaxChainOps)

ChainNext == ChainDefineSource \/ ChainUpdateSource \/ ChainDefineComputation \/ ChainRemoveSource \/ ChainRemoveComputation \/ ChainObserve \/ ChainUnsubscribe \/ Tick \/ TaskStep

SpecChain == ChainInit /\ [][ChainNext]_vars

\* --------------------------------------- scenario: the handle called again
\* the chain x -> B -> y -> C -> z; the host observes y and z, calls the
\* Unsubscribe functions it got, and calls them again
MaxRepeatOps == 4
\* the Unsubscribe function that observe returned, called once more
HostUnsubscribeAgain(budget) == HostTurn(budget) /\ \E h \in 1..NumObservers : handles[h].var # NoObj /\ ~handles[h].active /\ HostCall(Call("unsubscribe", <<Kernel, h>>))

RepeatInit == \E value \in {InitialValue} : Holds(ChainFixture(value)) /\ opCount = 0

RepeatObserve == HostObserve(ObservedIds, MaxRepeatOps)

RepeatUnsubscribe == HostUnsubscribe(MaxRepeatOps)

RepeatUnsubscribeAgain == HostUnsubscribeAgain(MaxRepeatOps)

RepeatNext == RepeatObserve \/ RepeatUnsubscribe \/ RepeatUnsubscribeAgain \/ Tick \/ TaskStep

SpecRepeat == RepeatInit /\ [][RepeatNext]_vars

\* ------------------------------------------------- scenario: a pulled chain
\* the chain x -> B -> y -> C -> z, nothing has run and nothing is observed;
\* the host calls getValue on y and z, and removes the source and the
\* computations while the calls wait
MaxPullOps == 2
PullInit == \E value \in {InitialValue} : Holds(ChainFixture(value)) /\ opCount = 0

PullGetValue == HostGetValue(ObservedIds, MaxPullOps)

PullRemoveSource == HostRemoveSource(SourceIds, MaxPullOps)

PullRemoveComputation == HostRemoveComputation(ComputationIds, MaxPullOps)

PullNext == PullGetValue \/ PullRemoveSource \/ PullRemoveComputation \/ Tick \/ TaskStep

SpecPull == PullInit /\ [][PullNext]_vars

\* the diamond under updates, with timers that fire and bodies that go on
SpecDiamondLive == SpecDiamond /\ TickFair /\ TaskStepFair

\* ----------------------------------------------------------- properties
\* the computations of the normal table and of the problem table
Healthy == Range(MapValues(computations))
Problem == Range(MapValues(problem_computations))

\* the Result a run of body produces when every read returns the reference
\* Result of the variable read: a read of a missing variable and of a variable
\* whose Result is no success throws, a throw becomes an Error Result
RECURSIVE refResult(_, _)
refBody(body, fuel) ==
    LET RECURSIVE run(_)
        run(vals) ==
            LET id == nextRead(body, vals)
            IN IF id = "none" THEN (IF bodyThrows(body) THEN ErrorResult(bodyError(body, vals)) ELSE Success(bodyValue(body, vals)))
               ELSE IF getVariable(Kernel, id) = NoObj THEN ErrorResult("not-found")
               ELSE LET r == refResult(id, fuel)
                    IN IF r.type = "success" THEN run(Append(vals, r.value))
                       ELSE IF r.type = "uninitialized" THEN ErrorResult("uninitialized")
                       ELSE ErrorResult(r.error)
    IN run(<<>>)
\* the reference Result of variable id: what a source or a problem variable
\* holds, and what the body of a healthy producer computes from its inputs
refResult(id, fuel) ==
    LET v == getVariable(Kernel, id)
    IN IF v = NoObj THEN ErrorResult("not-found")
       ELSE IF V[v].producer = NoObj \/ V[v].producer \notin Healthy \/ fuel = 0 THEN V[v].result
       ELSE refBody(C[V[v].producer].body, fuel - 1)
\* the longest producer chain of the definitions of the model
RefDepth == 3

\* the kernel is quiescent: nothing is queued, scheduled or in flight
Quiescent == isIdle(Kernel) /\ DOMAIN tasks = {}
\* the number of body invocations of computation id since the fixture
Starts(id) == IF id \in DOMAIN bodyStarts THEN bodyStarts[id] ELSE 0
\* the Variable object that the normal table holds for id
Var(id) == V[MapGet(variables, id)]
\* the body kind of the healthy computation id
KindOf(id) == C[MapGet(computations, id)].body.kind
\* the source a of the diamond holds a value other than the one of the fixture
DiamondChanged == Var("a").result # Success(InitialValue)

\* C1 as stated: in the diamond, after a single updateSource(a, v) with a
\* changed value the body of D has been invoked exactly once when the kernel
\* is quiescent again, and a D task begins only after b and c have committed
\* for the current value of a
C1_ExactlyOnce ==
    /\ (Quiescent /\ opCount = 1 /\ DiamondChanged) => Starts("D") = 1
    /\ \A t \in DOMAIN tasks : (tasks[t].startCompId = "D" /\ ~tasks[t].aborted) => (~Var("b").dirty /\ ~Var("c").dirty)

\* C1 amended: every updateSource(a, v) causes at most one invocation of the
\* body of D; a single one with a changed value causes exactly one if the
\* Result of b or of c changes and none if both stay equal (input pruning);
\* a D task that is not cancelled has begun after b and c committed the
\* reference Results for the current value of a, and at quiescence d holds
\* the reference Result
C1_AtMostOnceAfterCommit ==
    /\ Starts("D") <= opCount
    /\ (Quiescent /\ opCount = 1 /\ DiamondChanged) => Starts("D") = (IF KindOf("B") = "sum" \/ KindOf("C") = "sum" THEN 1 ELSE 0)
    /\ \A t \in DOMAIN tasks : (tasks[t].startCompId = "D" /\ ~tasks[t].aborted) => (~Var("b").dirty /\ ~Var("c").dirty /\ Var("b").result = refResult("b", RefDepth) /\ Var("c").result = refResult("c", RefDepth))
    /\ Quiescent => Var("d").result = refResult("d", RefDepth)
\* the single changed update has been absorbed with one invocation of D
C1_Witness == Quiescent /\ opCount = 1 /\ DiamondChanged /\ Starts("D") = 1 /\ Var("d").result = refResult("d", RefDepth)

\* observer h watches a variable of the normal table that a healthy computation produces
ObservesHealthy(h) == handles[h].active /\ handles[h].var \in Range(MapValues(variables)) /\ V[handles[h].var].producer \in Healthy

\* C2: no Result computed from a superseded source value is delivered: every
\* Result that a task or the scheduler delivers to an observer of the output
\* of a healthy computation is the reference Result of that output for the
\* current source values
C2_NoSupersededDelivery == [][\A h \in 1..NumObservers : (opCount' = opCount /\ ObservesHealthy(h) /\ ObservesHealthy(h)' /\ Len(delivered'[h]) > Len(delivered[h])) => delivered'[h][Len(delivered'[h])] = refResult(V[handles[h].var].id, RefDepth)']_vars

\* C3: a task whose cancellation has been requested never writes a Result
\* (Success or Error) to an output and never clears dirty, whatever its body
\* returns or throws afterwards
C3_CancelledTaskNeverWrites == ~lateWrite

\* C5: whenever a computation holds a running task its state is Ready
C5_RunningTaskImpliesReady == \A c \in Healthy \cup Problem : C[c].runningTask # NoObj => state(C[c]) = "ready"

\* C6: the dirtyInputCount of every healthy computation equals the number of
\* its runtime inputs that have a producer and are dirty
C6_DirtyInputCountExact == \A c \in Healthy : C[c].dirtyInputCount = Cardinality({v \in Range(C[c].runtimeInputs) : V[v].producer # NoObj /\ V[v].dirty})

\* C7: no body invocation starts while the observeCount of its computation is 0
C7_NoStartWhileUnobserved == \A t \in DOMAIN tasks : tasks[t].startObserveCount # 0
\* a body has been started, and its computation has lost its observers since
C7_Witness == \E t \in DOMAIN tasks : tasks[t].startObserveCount > 0 /\ C[tasks[t].comp].observeCount = 0

\* C8: the body of a computation that is in the problem table is never started
C8_NoStartInProblemTable == \A t \in DOMAIN tasks : ~tasks[t].startInProblemTable

\* C9: every variable of the problem table holds a Fatal Result for as long as
\* it stays there
C9_ProblemVariablesHoldFatal == \A i \in 1..Len(problem_variables) : V[problem_variables[i].v].result.type = "fatal"

\* C10: no healthy computation has a variable of the problem table among its
\* runtime inputs
C10_NoProblemInput == \A c \in Healthy : \A v \in Range(C[c].runtimeInputs) : v \notin Range(MapValues(problem_variables))

\* C4: whenever the kernel is idle, every healthy computation with observers
\* is clean and its outputs hold the Result of its body on the reference
\* Results of its inputs
C4_IdleMatchesReference == (isIdle(Kernel) /\ DOMAIN tasks = {}) => \A c \in Healthy : C[c].observeCount > 0 => (~C[c].dirty /\ \A o \in Range(MapValues(C[c].outputs)) : V[o].result = refBody(C[c].body, RefDepth))

\* observer h is registered by this step (observe returns)
Observed(h) == handles[h].var = NoObj /\ handles'[h].var # NoObj
\* the variable that observer h is registered on by this step was clean
ObservedClean(h) == ~V[handles'[h].var].dirty
\* the variable that observer h is registered on by this step was in the problem table
ObservedProblem(h) == handles'[h].var \in Range(MapValues(problem_variables))

\* C11: observe(id, cb) on a variable that is clean, or that is in the problem
\* table, has invoked cb exactly once, with the current Result of the
\* variable, when it returns
C11_ObserveDeliversCurrent == [][\A h \in 1..NumObservers : (Observed(h) /\ (ObservedClean(h) \/ ObservedProblem(h))) => delivered'[h] = <<V[handles'[h].var].result>>]_vars

\* computation id is defined: it is in the normal table or in the problem table
Defined(id) == MapHas(computations, id) \/ MapHas(problem_computations, id)
\* y is a source
SourceOwnsY == MapHas(variables, "y") /\ Var("y").producer = NoObj
\* the name of the producer of the variable y of the normal table ("none": no such variable, or a source)
ProducerOfY == IF MapHas(variables, "y") /\ Var("y").producer # NoObj THEN C[Var("y").producer].id ELSE "none"

\* C12: while the first declarer of the output name y (the computation P, or
\* the source y) remains defined, no later-defined computation declaring y
\* (Q, R) is healthy or is the producer of y
C12_FirstWin == (Defined("P") \/ SourceOwnsY) => (\A id \in {"Q", "R"} : ~MapHas(computations, id) /\ ProducerOfY # id)

\* the computations of the first-win scenario in the order of their definition
FirstWinIds == {"P", "Q", "R"}
FirstWinRank(id) == CASE id = "P" -> 1 [] id = "Q" -> 2 [] OTHER -> 3
\* the Computation object registered under id in either table
ObjectOf(id) == IF MapHas(computations, id) THEN MapGet(computations, id) ELSE MapGet(problem_computations, id)
\* computation id is defined and has no structural defect other than a
\* competitor for y: all of its inputs exist
Eligible(id) == Defined(id) /\ \A in \in Range(C[ObjectOf(id)].staticInputs) : MapHas(variables, in)
\* this step removes the owner of y: the source y, or the healthy producer of y
OwnerRemoved == (SourceOwnsY /\ ~SourceOwnsY') \/ (\E o \in FirstWinIds : ProducerOfY = o /\ ~Defined(o)')
\* id is the earliest-defined eligible computation
EarliestEligible(id) == Eligible(id) /\ \A j \in FirstWinIds : Eligible(j) => FirstWinRank(id) <= FirstWinRank(j)

\* C13: when the owner of the output name y is removed, the earliest-defined
\* computation among those still declaring y whose inputs all exist is the
\* producer of y afterwards, and every other computation declaring y is in
\* the problem table
C13_NextEarliestPromoted == [][OwnerRemoved => \A id \in FirstWinIds : EarliestEligible(id)' => (ProducerOfY' = id /\ \A j \in FirstWinIds \ {id} : Defined(j)' => MapHas(problem_computations', j))]_vars

\* the Result that observer h received last ("none": nothing yet)
LastDelivered(h) == IF Len(delivered[h]) = 0 THEN [type |-> "none", value |-> 0, error |-> "none"] ELSE delivered[h][Len(delivered[h])]
\* the name of the variable that observer h is registered on
ObservedName(h) == V[handles[h].var].id
\* every input of the computation B of the recovery scenario is defined
RecoveryInputsDefined == \A in \in Range(C[ObjectOf("B")].staticInputs) : MapHas(variables, in)

\* C14: once all the inputs of the computation that was a problem only for
\* missing inputs are defined, the observer of its output (or of the output
\* of its dependent) eventually receives the Success Result of the body for
\* the current inputs, with no further host call needed
C14_RecoveryDelivers == RecoveryInputsDefined ~> (LastDelivered(1).type = "success" /\ LastDelivered(1) = refResult(ObservedName(1), RefDepth))
\* the inputs are defined and the observer has received the Success Result
C14_Witness == RecoveryInputsDefined /\ opCount > 0 /\ LastDelivered(1).type = "success" /\ LastDelivered(1) = refResult(ObservedName(1), RefDepth)

\* the member id of the ring is defined with its input of the ring
ClosesCycle(id) == Defined(id) /\ CycleInput(id) \in Range(C[ObjectOf(id)].staticInputs)
\* the definitions of A, B and C form the cycle
Cyclic == \A id \in CycleIds : ClosesCycle(id)
\* the members of the cycle are quarantined
CycleQuarantined == Cyclic /\ \A id \in CycleIds : MapHas(problem_computations, id)
\* this step is a redefinition after which the definitions form no cycle
CycleBroken == CycleQuarantined /\ opCount' = opCount + 1 /\ ~Cyclic'

\* C15: when a member of a quarantined cycle is redefined (allowRedefinition)
\* so that the cycle is no longer closed, all the former members are in the
\* normal table and none in the problem table when the call returns
C15_CycleBreakHealsAll == [][CycleBroken => \A id \in CycleIds : MapHas(computations', id) /\ ~MapHas(problem_computations', id)]_vars
\* a redefinition has broken the quarantined cycle and all members are healthy
C15_Witness == opCount > 0 /\ ~Cyclic /\ \A id \in CycleIds : MapHas(computations, id) /\ ~MapHas(problem_computations, id)

\* the tasks (started bodies whose promise has not settled) of computation object c
InFlight(c) == {t \in DOMAIN tasks : tasks[t].comp = c}

\* C16: at most one body of any computation is in flight: the successor
\* task is not started before the body of the cancelled predecessor settled
C16_OneBodyInFlight == \A c \in DOMAIN C : Cardinality(InFlight(c)) <= 1

\* C17: the bodies that have been started and whose promise has not settled,
\* the cancelled ones included, are at most options.maxConcurrent
C17_BoundedConcurrency == Cardinality(DOMAIN tasks) <= options.maxConcurrent
\* the limit is reached with a cancelled body among those in flight, and a
\* ready computation is left waiting in the queue after the scheduling tick
C17_Witness == Cardinality(DOMAIN tasks) = options.maxConcurrent /\ (\E t \in DOMAIN tasks : tasks[t].aborted) /\ Len(readyQueue) > 0 /\ ~scheduleScheduled

\* the ready queue is empty, no dispatched execution is unsettled and no
\* scheduling tick is pending
IdleMoment == Len(readyQueue) = 0 /\ DOMAIN tasks = {} /\ ~scheduleScheduled

\* C18: the resolver of a promise of waitIdle is called only at an idle
\* moment, no idle moment passes while a resolver is waiting, and waitIdle
\* returns at once (isIdle) exactly at an idle moment
C18_WaitIdleResolvesAtIdle == [][(idleResolved' > idleResolved => IdleMoment') /\ (idleWaiters' > 0 => ~IdleMoment') /\ (isIdle(Kernel)' <=> IdleMoment')]_vars
\* a promise of waitIdle that was pending has been resolved
C18_Witness == idleResolved > 0 /\ idleWaiters = 0 /\ IdleMoment

\* the body of task t has returned and _executeComputation is about to commit
AboutToCommit(t) == tasks[t].pc = "run" /\ nextRead(tasks[t].body, tasks[t].vals) = "none" /\ ~bodyThrows(tasks[t].body) /\ ~tasks[t].aborted
\* the output variables of the computation of task t
OutputsOf(t) == Range(MapValues(C[tasks[t].comp].outputs))
\* every output of task t holds a Success equal to the value the body returned
CommitsEqual(t) == \A o \in OutputsOf(t) : V[o].result = Success(bodyValue(tasks[t].body, tasks[t].vals))
\* this step is the commit of task t (its promise settles)
CommitStep(t) == AboutToCommit(t) /\ t \notin DOMAIN tasks'
\* no host observer of an output of task t is called in this step
NoOutputObserverCalled(t) == \A h \in 1..NumObservers : (handles[h].active /\ handles[h].var \in OutputsOf(t)) => delivered'[h] = delivered[h]
\* no dependent of an output of task t has its dirtyInputCount increased
NoDownstreamCountIncreased(t) == \A o \in OutputsOf(t) : \A c \in Range(V[o].dependents) : C'[c].dirtyInputCount <= C[c].dirtyInputCount

\* C19: a commit of values equal to the previous Success values of the
\* outputs calls no observer of those outputs and increases no downstream
\* dirtyInputCount
C19_OutputPruning == [][\A t \in DOMAIN tasks : (CommitStep(t) /\ CommitsEqual(t)) => (NoOutputObserverCalled(t) /\ NoDownstreamCountIncreased(t))]_vars

\* computation object c is taken from the ready queue and dispatched in this
\* step as a Ready, observed computation without a running task
Dispatched(c) == c \in Range(readyQueue) /\ c \notin Range(readyQueue') /\ state(C[c]) = "ready" /\ C[c].observeCount > 0 /\ C[c].runningTask = NoObj
\* a body of the computation has been started before
ExecutedBefore(c) == C[c].id \in DOMAIN bodyStarts
\* no runtime input of c has a value_at greater than the input_version of c
InputsNotNewer(c) == \A v \in Range(C[c].runtimeInputs) : V[v].value_at <= C[c].input_version
\* the body of c is not invoked in this step
NotInvoked(c) == C[c].id \in DOMAIN bodyStarts' /\ bodyStarts'[C[c].id] = bodyStarts[C[c].id]
\* the outputs of c are clean after this step, Result and value_at unchanged
OutputsCleanUnchanged(c) == \A o \in Range(MapValues(C[c].outputs)) : ~V'[o].dirty /\ V'[o].result = V[o].result /\ V'[o].value_at = V[o].value_at

\* C20: input pruning: a Ready computation that has executed before and has
\* no runtime input newer than its input_version is dispatched without its
\* body being invoked, and its outputs become clean, unchanged
C20_InputPruning == [][\A c \in DOMAIN C : (Dispatched(c) /\ ExecutedBefore(c) /\ InputsNotNewer(c)) => (NotInvoked(c) /\ OutputsCleanUnchanged(c))]_vars
\* the computation D of the diamond has been skipped: its body started once,
\* it was dispatched again after an update of a, and d is clean
C20_Witness == opCount > 0 /\ "D" \in DOMAIN bodyStarts /\ bodyStarts["D"] = 1 /\ Len(delivered[1]) >= 2 /\ Quiescent /\ ~Var("d").dirty

\* ----- C21: a thrown error is committed once and not retried
\* the body of the non-cancelled task t has read all it reads and throws next
AboutToThrow(t) == tasks[t].pc = "run" /\ nextRead(tasks[t].body, tasks[t].vals) = "none" /\ bodyThrows(tasks[t].body) /\ ~tasks[t].aborted
\* this step is the throw of task t (its promise rejects)
ThrowStep(t) == AboutToThrow(t) /\ t \notin DOMAIN tasks'
\* after this step every output of task t is clean and holds Error of the thrown error
OutputsHoldError(t) == \A o \in OutputsOf(t) : V'[o].result = ErrorResult(bodyError(tasks[t].body, tasks[t].vals)) /\ ~V'[o].dirty
\* after this step the computation of task t is Idle
IdleAfter(t) == state(C'[tasks[t].comp]) = "idle" /\ ~C'[tasks[t].comp].dirty
\* every output of computation c holds the Error that the throwing body of c committed
HoldsOwnError(c) == C[c].body.kind = "throw" /\ C[c].input_version # 0 /\ \A o \in Range(MapValues(C[c].outputs)) : V[o].result.type = "error"
\* a body of the computation object c is started in this step
Restarted(c) == MapHas(computations, C[c].id) /\ MapGet(computations, C[c].id) = c /\ MapHas(computations', C[c].id) /\ MapGet(computations', C[c].id) = c /\ Starts(C[c].id)' > Starts(C[c].id)
\* some runtime input of c has received a value since the last execution of c
InputNewer(c) == \E v \in Range(C[c].runtimeInputs) : V[v].value_at > C[c].input_version

\* C21: when the body of a non-cancelled task throws an error that is not an
\* abort, every output of its computation holds Error with that error and is
\* clean, the computation is Idle, and while the outputs hold that Error a
\* body of the computation is started only when a runtime input has a value
\* newer than the one the throwing execution saw
C21_ThrowCommitsOnce ==
    [][(\A t \in DOMAIN tasks : ThrowStep(t) => (OutputsHoldError(t) /\ IdleAfter(t)))
       /\ (\A c \in DOMAIN C : (HoldsOwnError(c) /\ Restarted(c)) => InputNewer(c))]_vars
\* a body threw, its outputs hold the Error, and after a later update of the
\* input the body was started a second time
C21_Witness == \E c \in DOMAIN C : HoldsOwnError(c) /\ C[c].id \in DOMAIN bodyStarts /\ bodyStarts[C[c].id] >= 2 /\ ~C[c].dirty /\ Quiescent

\* ----- C22: a throwing observer callback
\* the kernel k with every callback returning normally
Returning(k) == [k EXCEPT !.throwing = {}, !.thrown = FALSE, !.escaped = FALSE]
\* the kernels that one step leads to when every callback returns normally
ReturningOutcomes ==
    {Call("updateSource", <<Returning(Kernel), "x", value>>) : value \in Values}
    \cup {Call("observeInternal", <<Returning(Kernel), id, h>>) : id \in {"x", "y"}, h \in 1..NumObservers}
    \cup {Call("scheduleNext", <<[Returning(Kernel) EXCEPT !.scheduleScheduled = FALSE]>>)}
    \cup {Call("taskStep", <<Returning(Kernel), t>>) : t \in DOMAIN tasks}
\* a callback that throws has been called in this step
ThrowerCalled == \E h \in throwing : Len(delivered'[h]) > Len(delivered[h])

\* C22: when an observer callback throws during a notification, the
\* exception does not reach the caller of the public operation, and the state
\* of the kernel after the step is the one that the same step leads to when
\* the callback returns normally
C22_ObserverThrowContained == [][ThrowerCalled => (~escaped' /\ Returning(Kernel)' \in ReturningOutcomes)]_vars

\* ----- C23: cause_at consistency
\* the cause_at of c is at least the cause_at of each of its runtime inputs
CauseAtCoversInputs(c) == \A v \in Range(C[c].runtimeInputs) : C[c].cause_at >= V[v].cause_at
\* every output of c has the cause_at of c
OutputsShareCauseAt(c) == \A o \in Range(MapValues(C[c].outputs)) : V[o].cause_at = C[c].cause_at

\* C23: in every state, each healthy computation has a cause_at that is at
\* least the cause_at of each of its runtime inputs, and each of its outputs
\* has a cause_at equal to the cause_at of the computation
C23_CauseAtConsistent == \A c \in Healthy : CauseAtCoversInputs(c) /\ OutputsShareCauseAt(c)

\* ----- C24: cause_at is monotonic
\* the Variable objects that a table (normal or problem) holds
LiveVariables == Range(MapValues(variables)) \cup Range(MapValues(problem_variables))

\* C24: the cause_at of a Variable never decreases from one state to the
\* next while a table holds it, whether the normal or the problem table
C24_CauseAtMonotonic == [][\A v \in LiveVariables : v \in LiveVariables' => V'[v].cause_at >= V[v].cause_at]_vars

\* ----- C25: what advances the logical clock
\* updateSource of an existing source, with any value, advances the clock by one
UpdateAdvancesByOne == \A id \in SourceIds, value \in Values : (MapHas(variables, id) /\ Var(id).producer = NoObj) => Call("updateSource", <<Kernel, id, value>>).logicalClock = logicalClock + 1
\* defineComputation with allowRedefinition of a defined id, when it takes
\* effect, advances the clock by one
RedefinitionAdvancesByOne == \A def \in Definitions : (Defined(def.id) /\ Call("defineComputation", <<Kernel, def, TRUE>>) # Kernel) => Call("defineComputation", <<Kernel, def, TRUE>>).logicalClock = logicalClock + 1
\* defineSource with an initial value advances the clock by one more than
\* the same defineSource without an initial value
InstallationAdvancesByOne == \A id \in SourceIds, value \in Values : (MapHas(variables, id) => Var(id).producer = NoObj) => Call("defineSource", <<Kernel, id, TRUE, value, TRUE>>).logicalClock = Call("defineSource", <<Kernel, id, FALSE, value, TRUE>>).logicalClock + 1
\* a successful commit that changes an output advances the clock by one
CommitAdvancesByOne == \A t \in DOMAIN tasks : (CommitStep(t) /\ ~CommitsEqual(t)) => logicalClock' = logicalClock + 1

\* C25: the logical clock advances by exactly one for each source update
\* (changed or unchanged value), each successful commit that changes at least
\* one output, each computation redefinition and each installation of the
\* initial value of a source
C25_ClockAdvancesByOne == [][UpdateAdvancesByOne /\ RedefinitionAdvancesByOne /\ InstallationAdvancesByOne /\ CommitAdvancesByOne]_vars

\* ----- C26: redefinition keeps the observers
\* the callback of handle h is among the observers of the variable named id
Subscribed(h, id) == getVariable(Kernel, id) # NoObj /\ [kind |-> "cb", id |-> h] \in Range(V[getVariable(Kernel, id)].observers)
\* observer h has last received the reference Result of the variable named id
ReceivedCurrent(h, id) == LastDelivered(h) = refResult(id, RefDepth)

\* C26: after defineComputation with allowRedefinition of the existing B,
\* the observer registered on y before stays among the observers of y and
\* receives the Result of the new body without subscribing again: it has
\* received it when the kernel is quiescent, since nothing is delivered
\* after that without a host call
C26_RedefinitionKeepsObservers == (opCount > 0) => (Subscribed(1, "y") /\ (Quiescent => ReceivedCurrent(1, "y")))

\* in this step a callback of withTransaction runs a turn
CallbackTurn == transaction'.turns # transaction.turns
\* a body starts in this step
BodyStarts == bodyStarts' # bodyStarts
\* the bodies of id started since the callback of the transaction began
StartedSince(id) == Starts(id) - (IF id \in DOMAIN transaction.starts THEN transaction.starts[id] ELSE 0)
\* the callback has finished and its calls have changed an input of sum_comp
FinishedChanged == transaction.turns > 0 /\ ~transaction.open /\ transaction.changed
\* the body of sum_comp has started at most once since, and once when the
\* kernel has come to rest
ExecutedOnce == StartedSince("sum_comp") <= 1 /\ (Quiescent => StartedSince("sum_comp") = 1)

\* C27: the updateSource calls made inside one withTransaction callback lead
\* to exactly one execution of the body of the observed sum_comp, which
\* starts only after the callback has finished: no body starts in a turn of
\* the callback nor while a callback that has changed a source is unfinished
C27_TransactionBatches == [](FinishedChanged => ExecutedOnce) /\ [][(CallbackTurn \/ (transaction.open /\ transaction.changed)) => ~BodyStarts]_vars

\* C27, amended: the same for a callback that finishes in the turn it was
\* called in, without awaiting
C27_SynchronousTransactionBatches == []((FinishedChanged /\ ~transaction.awaited) => ExecutedOnce) /\ [][CallbackTurn => ~BodyStarts]_vars

C27_Witness == FinishedChanged /\ ~transaction.awaited /\ Quiescent /\ StartedSince("sum_comp") = 1 /\ transaction.turns = 1 /\ Var("a").value_at > 5 /\ Var("b").value_at > 5 /\ LastDelivered(1) = refResult("sum", RefDepth)

\* the healthy computation c is Ready and has no running task
ReadyNotRunning(c) == state(C[c]) = "ready" /\ C[c].runningTask = NoObj

\* C28: a computation that is Ready (dirty, observed, no dirty computed
\* input) and has no runningTask is in the ready queue; a dispatch takes a
\* computation out of the queue and starts or skips it in the same step, so
\* between steps the queue is the only place a pending dispatch can be. This
\* holds after every step, in particular after the step in which a task
\* settles and leaves its computation dirty and Ready
C28_ReadyIsScheduled == \A c \in Healthy : ReadyNotRunning(c) => c \in Range(readyQueue)

\* in this step the body of the running task t reads v for the first time in
\* its execution, v is a declared input and not yet a runtime input of the
\* computation, and the cause_at of v exceeds the computation's
FirstRead(t, v) ==
    /\ ~tasks[t].aborted /\ C[tasks[t].comp].runningTask = t /\ t \in DOMAIN tasks'
    /\ v \notin tasks[t].accessed /\ v \in tasks'[t].accessed
    /\ v \notin Range(C[tasks[t].comp].runtimeInputs) /\ V[v].id \in Range(C[tasks[t].comp].staticInputs)
    /\ V[v].cause_at > C[tasks[t].comp].cause_at
\* the task t is cancelled in this step
Cancelled(t) == ~tasks[t].aborted /\ t \in DOMAIN tasks' /\ tasks'[t].aborted
\* the host updates in this step a source that the computation of t reads
InputUpdated(t) == \E v \in Range(C[tasks[t].comp].runtimeInputs) : V[v].producer = NoObj /\ v \in DOMAIN V' /\ V'[v].cause_at > V[v].cause_at
\* the computation of t is observed after this step: the step does not cancel
\* t for want of an observer
StaysObserved(t) == C'[tasks[t].comp].observeCount > 0
\* the access leaves t the running task of its computation, not cancelled
StillRunning(t) == ~tasks'[t].aborted /\ C'[tasks[t].comp].runningTask = t

\* C29: the first read, in an execution, of a declared input that is not yet
\* a runtime input and whose cause_at exceeds the computation's does not
\* cancel the running task; a task whose computation stays observed is
\* cancelled only in a step of the host, and an update of a source that the
\* running computation reads cancels it
C29_DynamicAttachKeepsTask == [][\A t \in DOMAIN tasks : /\ \A v \in DOMAIN V : (FirstRead(t, v) => StillRunning(t))
                                                        /\ ((Cancelled(t) /\ StaysObserved(t)) => opCount' # opCount)
                                                        /\ ((~tasks[t].aborted /\ C[tasks[t].comp].runningTask = t /\ InputUpdated(t)) => Cancelled(t))]_vars

\* the kernel when the commit of task t has notified the observers of its
\* outputs, cleaned the unused inputs and set comp.dirty = false
\* (handleExecutionSuccess before the promise settles)
CommitOf(t) == Call("setDirty", <<Call("cleanUnusedInputs", <<Call("updateOutputs", <<Kernel, tasks[t].comp, bodyValue(tasks[t].body, tasks[t].vals), t>>), tasks[t].comp, tasks[t].accessed>>), tasks[t].comp, FALSE>>)
\* the commit of the running task t leaves it the running task, not cancelled
CommitKeepsTask(t) == (AboutToCommit(t) /\ C[tasks[t].comp].runningTask = t) => (~CommitOf(t).tasks[t].aborted /\ CommitOf(t).C[tasks[t].comp].runningTask = t)
\* in this step the Ready computation c, whose task is running, stays dirty
\* and loses its last observer
LosesObservers(c) == state(C[c]) = "ready" /\ C[c].runningTask \in DOMAIN tasks /\ C'[c].dirty /\ C'[c].observeCount = 0
\* the task that was running for c is cancelled in this step
TaskCancelled(c) == C'[c].runningTask = NoObj /\ (C[c].runningTask \in DOMAIN tasks' => tasks'[C[c].runningTask].aborted)

\* C30: the running task of a computation that leaves Ready because its
\* observeCount drops to 0 is cancelled, and no running task is cancelled by
\* its own commit: neither by the notifications of its outputs nor by the
\* Ready -> Idle transition of comp.dirty = false
C30_CancelOnlyWhenUnobserved == [](\A t \in DOMAIN tasks : CommitKeepsTask(t)) /\ [][\A c \in DOMAIN C : LosesObservers(c) => TaskCancelled(c)]_vars

\* the computation object that id names in the kernel k
ComputationOf(k, id) == IF MapHas(k.computations, id) THEN MapGet(k.computations, id) ELSE MapGet(k.problem_computations, id)
\* the computations of k, healthy and quarantined
AllComputations(k) == Range(MapValues(k.computations)) \cup Range(MapValues(k.problem_computations))
\* in k the computation c is the producer of a variable that d declares as input
Feeds(k, c, d) == \E in \in Range(k.C[d].staticInputs) : getVariable(k, in) # NoObj /\ k.V[getVariable(k, in)].producer = c
\* the computations of k that those of S feed, directly or through others
RECURSIVE Downstream(_, _)
Downstream(k, S) ==
    LET T == S \cup {d \in AllComputations(k) : \E c \in S : Feeds(k, c, d)}
    IN IF T = S THEN S ELSE Downstream(k, T)
\* c lies on a dependency cycle of k
OnCycle(k, c) == \E d \in AllComputations(k) : Feeds(k, c, d) /\ c \in Downstream(k, {d})
\* this step is a host call that defines the computation id, which was not
\* defined before
NewlyDefined(id) == opCount' # opCount /\ ~Defined(id) /\ Defined(id)'
\* the computation id of k is quarantined as circular-dependency
ClassifiedCircular(k, id) == MapHas(k.problem_computations, id) /\ k.C[MapGet(k.problem_computations, id)].problemReason.type = "circular-dependency"

\* C31: a newly defined computation is classified circular-dependency if and
\* only if it lies on a dependency cycle of the graph of all computations,
\* healthy and quarantined, in which the producer of a variable is its owner
C31_CircularIffOnCycle == [][\A id \in StructureIds : NewlyDefined(id) => (ClassifiedCircular(Kernel', id) <=> OnCycle(Kernel', ComputationOf(Kernel', id)))]_vars

\* C32: the observeCount of every variable is never negative and is at least
\* the number of observer callbacks registered on the variable
C32_ObserveCountCoversObservers == \A v \in LiveVariables : V[v].observeCount >= 0 /\ V[v].observeCount >= Len(V[v].observers)

\* the ids of the computations of the normal and of the problem table
DefinedIds == {C[c].id : c \in Healthy \cup Problem}
\* this step is a host call that removes a source
SourceRemoved == opCount' # opCount /\ \E v \in Range(MapValues(variables)) : V[v].producer = NoObj /\ ~MapHas(variables', V[v].id)
\* this step is a host call that removes the computation id
ComputationRemoved(id) == opCount' # opCount /\ Defined(id) /\ ~Defined(id)'
\* this step is a host call that gives the computation id another definition
Redefined(id) == opCount' # opCount /\ Defined(id) /\ Defined(id)' /\ (C'[ObjectOf(id)'].staticInputs # C[ObjectOf(id)].staticInputs \/ C'[ObjectOf(id)'].body # C[ObjectOf(id)].body \/ MapKeys(C'[ObjectOf(id)'].outputs) # MapKeys(C[ObjectOf(id)].outputs))
\* this step is a removeSource, a removeComputation or a redefinition
RemovalOrRedefinition == SourceRemoved \/ \E id \in DefinedIds : ComputationRemoved(id) \/ Redefined(id)
\* every declared input of every healthy computation is in the normal table
HealthyInputsPresent == \A c \in Healthy : \A in \in Range(C[c].staticInputs) : MapHas(variables, in)

\* C33: when a removeSource, removeComputation or redefinition returns, every
\* healthy computation has all of its declared inputs in the normal variable
\* table, and no computation other than the one removed has been deleted
C33_RemovalQuarantinesConsumers == [][RemovalOrRedefinition => (HealthyInputsPresent' /\ \A id, other \in DefinedIds : (~Defined(id)' /\ ~Defined(other)') => id = other) /\ (SourceRemoved => \A id \in DefinedIds : Defined(id)')]_vars

\* the body that task t runs is a previous body of its computation: the id
\* has been removed, or it is now defined with another body
Superseded(t) == ~Defined(tasks[t].startCompId) \/ C[ObjectOf(tasks[t].startCompId)].body # tasks[t].body
\* the body of task t is started in this step
StartStep(t) == t \notin DOMAIN tasks /\ t \in DOMAIN tasks'
\* the body of task t returns or throws in this step
EndStep(t) == t \in DOMAIN tasks /\ t \notin DOMAIN tasks'
\* no variable of a table is given a result in this step
NoLiveVariableWritten == \A v \in LiveVariables' \cap DOMAIN V : V'[v].result = V[v].result /\ V'[v].value_at = V[v].value_at
\* no observer of the host is called in this step
NoObserverCalled == delivered' = delivered

\* C34: once removeComputation(id) or a redefinition of id has returned, no
\* task is started with the previous body of id, and the end of a task that
\* runs a previous body writes no result to a variable of a table and calls
\* no observer
C34_PreviousBodyIsDead == [][(\A t \in DOMAIN tasks' : StartStep(t) => ~Superseded(t)') /\ (\A t \in DOMAIN tasks : (EndStep(t) /\ Superseded(t)) => (NoLiveVariableWritten /\ NoObserverCalled))]_vars

\* a declared input of computation c is absent from the normal table
MissingInput(k, c) == \E in \in Range(k.C[c].staticInputs) : ~MapHas(k.variables, in)
\* the output ids that the definition of computation c declares
DeclaredOutputs(k, c) == IF c \in Range(MapValues(k.problem_computations)) THEN Range(k.C[c].definition.outputs) ELSE Range(MapKeys(k.C[c].outputs))
\* a declared output of computation c is a cell of another producer or a source
OutputOwnedByOther(k, c) == \E out \in DeclaredOutputs(k, c) : getVariable(k, out) # NoObj /\ k.V[getVariable(k, out)].producer # c
HasDefect(k, c) == MissingInput(k, c) \/ OutputOwnedByOther(k, c) \/ OnCycle(k, c)

\* C35: after every structural operation a computation is in the problem
\* table exactly when a declared input is absent from the normal table, a
\* declared output is owned by another producer, or it lies on a cycle
C35_QuarantinedIffDefective == \A c \in AllComputations(Kernel) : (c \in Problem) <=> HasDefect(Kernel, c)

\* the cells of the two variable tables
TableCells == {MapGet(variables, id) : id \in Range(MapKeys(variables))} \cup {MapGet(problem_variables, id) : id \in Range(MapKeys(problem_variables))}
\* the ids of a table are distinct
DistinctKeys(m) == \A i, j \in 1..Len(m) : m[i].k = m[j].k => i = j
\* variable v is a source, or the one computation of a table that lists v
\* among its outputs is v's producer
OneProducer(v) == \A c \in Healthy \cup Problem : (v \in Range(MapValues(C[c].outputs))) <=> V[v].producer = c

\* C36: no variable id is in the normal and in the problem variable table at
\* once; an id names one cell, the cell carries that id, and the cell has one
\* producer or is a source
C36_OneCellPerId == /\ Range(MapKeys(variables)) \cap Range(MapKeys(problem_variables)) = {}
                    /\ DistinctKeys(variables) /\ DistinctKeys(problem_variables)
                    /\ \A i \in 1..Len(variables) : V[variables[i].v].id = variables[i].k
                    /\ \A i \in 1..Len(problem_variables) : V[problem_variables[i].v].id = problem_variables[i].k
                    /\ \A v \in LiveVariables : OneProducer(v)

\* this step is a host call that defines the computation id, which was not
\* defined before, and leaves it in the problem table
DefinedAsProblem(id) == NewlyDefined(id) /\ MapHas(problem_computations', id)
\* every computation of the normal table is in the normal table after the step
HealthyStayHealthy == \A id \in Range(MapKeys(computations)) : MapHas(computations', id)
\* every variable of the normal table is in it after the step, with the same Result
NormalResultsKept == \A id \in Range(MapKeys(variables)) : MapHas(variables', id) /\ V'[MapGet(variables', id)].result = V[MapGet(variables, id)].result

\* C37: a defineComputation of a new id that ends in the problem table
\* (missing input, output conflict or cycle) leaves every healthy computation
\* healthy and the Result of every variable of the normal table unchanged
C37_ProblemDefinitionIsLocal == [][\A id \in StructureIds \cup ComputationIds \cup FirstWinIds : DefinedAsProblem(id) => (HealthyStayHealthy /\ NormalResultsKept)]_vars

\* this step is a call of the Unsubscribe function of handle h that has been
\* called before
RepeatedUnsubscribe(h) == handles[h].var # NoObj /\ ~handles[h].active /\ opCount' = opCount + 1 /\ Kernel' = toCaller(Call("unsubscribe", <<Kernel, h>>))
\* the step changes no observeCount, no computation state, and neither the
\* ready queue nor a running task
SchedulingUnchanged == /\ \A v \in DOMAIN V : V'[v].observeCount = V[v].observeCount
                       /\ \A c \in DOMAIN C : C'[c].observeCount = C[c].observeCount /\ state(C'[c]) = state(C[c]) /\ C'[c].runningTask = C[c].runningTask
                       /\ readyQueue' = readyQueue /\ tasks' = tasks

\* C38: calling an Unsubscribe function a second time changes no
\* observeCount, no computation state, and neither the ready queue nor a
\* running task
C38_UnsubscribeIsIdempotent == [][\A h \in 1..NumObservers : RepeatedUnsubscribe(h) => SchedulingUnchanged]_vars

\* the promise of the getValue call h is pending
PendingPull(h) == handles[h].var # NoObj /\ delivered[h] = <<>>
\* no timer of the scheduler is armed and no body in flight can take a step:
\* without a further call of the host the kernel does nothing more
Stopped == ~TickEnabled /\ ~TaskStepEnabled

\* C39: the promise of every getValue / getValueResult call settles, also
\* when the variable is in the problem table or its producer is removed or
\* quarantined while the call waits: the kernel never stops while a promise
\* is pending
C39_GetValueSettles == \A h \in 1..NumObservers : PendingPull(h) => ~Stopped

\* C40: after the last call of the host the kernel comes to the idle
\* condition (empty ready queue, no running execution, no timer armed) and
\* stays in it: no computation is cancelled and restarted, or dispatched
\* again, forever
C40_ReachesIdle == <>[]isIdle(Kernel)
\* a computation has been dispatched again after an update and the kernel
\* is idle
C40_Witness == isIdle(Kernel) /\ DOMAIN tasks = {} /\ opCount = MaxDiamondOps /\ \E id \in {"B", "C", "D"} : Starts(id) >= 2
====
